---- MODULE Spec2Model ----
(***************************************************************************)
(* Synchronized deterministic composition: the seeded sequence generator   *)
(* (shared/seededRandom.ts), the recursive partitioner and the renderer    *)
(* (shared Mondrian module) and the client handler that feeds broadcast    *)
(* parameters into them.                                                   *)
(*                                                                         *)
(* Numbers.  The generator state is an integer; next() returns the double  *)
(* state / 233280, represented here by its numerator (the state itself).   *)
(* Every comparison and floor the code applies to such a double is written *)
(* in integer arithmetic on the numerator.                                 *)
(***************************************************************************)
EXTENDS Integers, Sequences, FiniteSets, TLC

VARIABLES
    gen,        \* SeededRandom instances: constructor seed, field `seed`, call history
    part,       \* one generateBlocks run: its input and, once run, its result
    canvas,     \* per client: canvas width and height (CanvasManager)
    started,    \* per client: MondrianApp.isStarted
    surface,    \* per client: what the last composition issued to the 2D context
    clock,      \* server Date.now(), in ms since the server started listening
    registry,   \* server: connectedClients, socket id -> {id, connectedAt}
    conns,      \* server: ids of the sockets connected to the namespace (io.emit targets)
    nextId,     \* transport: the next fresh socket id
    startup,    \* server: the one-shot setTimeout of startScheduler
    interval,   \* server: generationInterval, the setInterval handle
    phase,      \* server: listening, closing (after a signal) or exited
    sent,       \* server: the messages emitted by the handler that ran in the last step
    lastOp,     \* server: the handler that ran in the last step
    seeds,      \* server: the seeds of the generate events broadcast so far
    lastTick,   \* server: the clock at the latest scheduler tick, -1 before the first
    skew,       \* sync: server clock minus client clock (the true offset)
    link,       \* sync: the client's connection
    upq,        \* sync: messages in flight client -> server, in order
    downq,      \* sync: messages in flight server -> client, in order
    sendBuffer, \* sync: packets emitted by the client while not connected
    clockOffset,\* sync: MondrianSocketClient.clockOffset, in half milliseconds
    lastSync,   \* sync: how clockOffset was last set
    toneGen,    \* tone: the ToneGenerator object's fields
    audioContext, \* tone: the AudioContext's state and the start() calls awaiting resume()
    timers,     \* tone: the live setInterval timers of the page or process
    timerIds,   \* tone: how many timer ids have been handed out
    toneClock,  \* tone: time in ms since the generator was constructed
    tempFile,   \* tone: which tone's data temp_tone.wav holds, 0 when there is no file
    tones,      \* tone: the playTone() calls so far and how far each has got
    toneOp,     \* tone: the call or callback that ran in the last step
    orbit       \* one SeededRandom followed through a whole period of next() calls

serverVars == <<clock, registry, conns, nextId, startup, interval, phase, sent, lastOp,
                seeds, lastTick>>
syncVars == <<skew, link, upq, downq, sendBuffer, clockOffset, lastSync>>

toneVars == <<toneGen, audioContext, timers, timerIds, toneClock, tempFile, tones,
              toneOp>>

vars == <<gen, part, canvas, started, surface, serverVars, syncVars, toneVars,
          orbit>>

\* The server and the time synchronisation take no part.
ServerIdle ==
    /\ clock = 0 /\ registry = <<>> /\ conns = {} /\ nextId = 1
    /\ startup = "none" /\ interval = <<>> /\ phase = "none"
    /\ sent = <<>> /\ lastOp = <<>> /\ seeds = <<>> /\ lastTick = -1

SyncIdle ==
    /\ skew = 0 /\ link = <<>> /\ upq = <<>> /\ downq = <<>>
    /\ sendBuffer = <<>> /\ clockOffset = 0 /\ lastSync = <<>>

\* No tone generator takes part, and no generator is followed through its
\* period.
ToneIdle ==
    /\ toneGen = <<>> /\ audioContext = <<>> /\ timers = {} /\ timerIds = 0
    /\ toneClock = 0 /\ tempFile = 0 /\ tones = <<>> /\ toneOp = <<>>
    /\ orbit = <<>>

----------------------------------------------------------------------------
(* Bounds of the model *)

MaxCalls == 3          \* calls per generator instance
MaxMaxDepth == 4       \* largest maxDepth handed to generateBlocks directly

Instances == {1, 2}
Clients == {1, 2}

\* -210637 is the seed whose first next() returns 0.
RngSeeds == {-233280, -210637, -1, 0, 1, 42, 233280, 233322}
IntArgs == {<<4, 6>>}
FloatArgs == {<<220, 880>>}

----------------------------------------------------------------------------
(* SeededRandom *)

Modulus == 233280
Multiplier == 9301
Increment == 49297

\* The JavaScript remainder a % m (sign of the dividend), m > 0.
JsRem(a, m) == IF a >= 0 THEN a % m ELSE 0 - ((0 - a) % m)

\* constructor without the `if (this.seed <= 0)` line
SeededRandomNoFix(seed) == JsRem(seed, Modulus)

\* constructor with the quotient seed / 233280 in place of the remainder
SeededRandomQuotient(seed) ==
    LET r == IF seed >= 0 THEN seed \div Modulus ELSE 0 - ((0 - seed) \div Modulus)
    IN  IF r <= 0 THEN r + Modulus ELSE r

\* constructor: the starting value of the field `seed`
SeededRandom(seed) ==
    LET r == JsRem(seed, Modulus)
    IN  IF r <= 0 THEN r + Modulus ELSE r

\* next() without the increment: state * 9301 mod 233280
nextNoIncrement(s) ==
    (((s * (Multiplier \div 100)) % Modulus) * 100
        + s * (Multiplier % 100)) % Modulus

\* next(): the new value of the field; the value returned is this / 233280.
\* state * 9301 + 49297 is exact in a double (below 2^53); it is computed
\* here as state * (93 * 100 + 1) with an intermediate reduction to stay
\* inside 32-bit integers.
next(s) ==
    (((s * (Multiplier \div 100)) % Modulus) * 100
        + s * (Multiplier % 100) + Increment) % Modulus

\* nextInt(min, max): Math.floor(next() * (max - min + 1)) + min
nextInt(s, min, max) ==
    LET n == next(s)
    IN  [state |-> n, value |-> (n * (max - min + 1)) \div Modulus + min]

\* nextFloat(min, max): next() * (max - min) + min, as a numerator over 233280
nextFloat(s, min, max) ==
    LET n == next(s)
    IN  [state |-> n, value |-> n * (max - min) + min * Modulus]

\* The outcome of one call on a generator whose field holds s.
Apply(s, call) ==
    CASE call[1] = "next"      -> [state |-> next(s), value |-> next(s)]
      [] call[1] = "nextInt"   -> nextInt(s, call[2], call[3])
      [] call[1] = "nextFloat" -> nextFloat(s, call[2], call[3])

NewInstance(seed) ==
    [seed |-> seed, start |-> SeededRandom(seed), state |-> SeededRandom(seed),
     calls |-> <<>>, outs |-> <<>>, raws |-> <<>>]

\* the field `seed` declared static: one cell shared by every instance
AfterCallStatic(g, i, call) ==
    LET r == Apply(g[i].state, call)
    IN  [j \in DOMAIN g |->
            IF j = i
            THEN [g[j] EXCEPT !.state = r.state,
                              !.calls = Append(@, call),
                              !.outs = Append(@, r.value),
                              !.raws = Append(@, r.state)]
            ELSE [g[j] EXCEPT !.state = r.state]]

\* A method call on instance i: only this.seed of that instance changes.
AfterCall(g, i, call) ==
    LET r == Apply(g[i].state, call)
    IN  [g EXCEPT ![i] = [@ EXCEPT !.state = r.state,
                                   !.calls = Append(@, call),
                                   !.outs = Append(@, r.value),
                                   !.raws = Append(@, r.state)]]

NoPart == [stage |-> "none"]
NoCanvas == <<>>

InitRng ==
    /\ \E s1 \in RngSeeds : \E s2 \in RngSeeds :
          gen = [i \in Instances |-> NewInstance(IF i = 1 THEN s1 ELSE s2)]
    /\ part = NoPart
    /\ canvas = NoCanvas
    /\ started = NoCanvas
    /\ surface = NoCanvas
    /\ ServerIdle
    /\ SyncIdle
    /\ ToneIdle

CallNext(i) ==
    /\ Len(gen[i].calls) < MaxCalls
    /\ gen' = AfterCall(gen, i, <<"next">>)
    /\ UNCHANGED <<part, canvas, started, surface, serverVars, syncVars, toneVars, orbit>>

CallNextInt(i) ==
    /\ Len(gen[i].calls) < MaxCalls
    /\ \E a \in IntArgs : gen' = AfterCall(gen, i, <<"nextInt", a[1], a[2]>>)
    /\ UNCHANGED <<part, canvas, started, surface, serverVars, syncVars, toneVars, orbit>>

CallNextFloat(i) ==
    /\ Len(gen[i].calls) < MaxCalls
    /\ \E a \in FloatArgs : gen' = AfterCall(gen, i, <<"nextFloat", a[1], a[2]>>)
    /\ UNCHANGED <<part, canvas, started, surface, serverVars, syncVars, toneVars, orbit>>

NextRng ==
    \/ \E i \in Instances : CallNext(i)
    \/ \E i \in Instances : CallNextInt(i)
    \/ \E i \in Instances : CallNextFloat(i)

SpecRng == InitRng /\ [][NextRng]_vars

----------------------------------------------------------------------------
(* Claims about SeededRandom *)

MinOf(a, b) == IF a <= b THEN a ELSE b

\* C1: two instances constructed with the same seed and driven by the same
\* calls (same methods, same arguments, same order) have returned the same
\* value at every position reached by both, whatever either did afterwards.
C1_SameSeedSameStream ==
    \A i \in Instances : \A j \in Instances :
        gen[i].seed = gen[j].seed =>
            \A k \in 1..MinOf(Len(gen[i].calls), Len(gen[j].calls)) :
                SubSeq(gen[i].calls, 1, k) = SubSeq(gen[j].calls, 1, k)
                    => gen[i].outs[k] = gen[j].outs[k]

C1_Witness ==
    /\ gen[1].seed = gen[2].seed
    /\ gen[1].calls = <<<<"next">>, <<"nextInt", 4, 6>>, <<"nextFloat", 220, 880>>>>
    /\ gen[2].calls = gen[1].calls
    /\ gen[1].outs = gen[2].outs

\* (state * 9301 + 49297) mod 233280 written over the decimal split
\* state = 1000 * q + r, with 9301000 mod 233280 = 203080.
LcgOf(s) == (203080 * (s \div 1000) + 9301 * (s % 1000) + 49297) % 233280

\* C2 as stated: the field is in 0..233279 after any number of calls,
\* zero calls included.
C2_StateAlwaysBelowModulus ==
    \A i \in Instances : gen[i].state \in 0..233279

\* C2 (amended): every call replaces the field by
\* (state * 9301 + 49297) mod 233280 and draws state / 233280 from it, so
\* after at least one call the field is in 0..233279 and the value drawn
\* is in [0, 1).
C2_NextIsLcgStep ==
    [][\A i \in Instances :
          gen'[i] # gen[i] =>
              /\ gen'[i].state = LcgOf(gen[i].state)
              /\ gen'[i].state \in 0..233279
              /\ Len(gen'[i].raws) = Len(gen[i].raws) + 1
              /\ gen'[i].raws[Len(gen'[i].raws)] = gen'[i].state
              /\ \A k \in 1..Len(gen'[i].calls) :
                    gen'[i].calls[k][1] = "next" =>
                        /\ gen'[i].outs[k] = gen'[i].raws[k]
                        /\ 0 <= gen'[i].outs[k]
                        /\ gen'[i].outs[k] < 233280]_vars

C2_Witness ==
    \E i \in Instances :
        /\ gen[i].start = 233280
        /\ Len(gen[i].calls) = MaxCalls
        /\ gen[i].calls[1][1] = "next"
        /\ gen[i].state \in 0..233279

\* C3: the constructor leaves seed mod 233280 (remainder with the sign of
\* the seed), plus 233280 when that is <= 0; the starting state is
\* strictly positive; and the stream of a seed <= 0 is not all zeros.
C3_StartStatePositive ==
    \A i \in Instances :
        LET s == gen[i].seed
            m == IF s >= 0 THEN s % 233280 ELSE 0 - ((0 - s) % 233280)
        IN  /\ gen[i].start = (IF m <= 0 THEN m + 233280 ELSE m)
            /\ gen[i].start > 0
            /\ (s <= 0 /\ Len(gen[i].raws) >= 2) =>
                   \E k \in 1..Len(gen[i].raws) : gen[i].raws[k] # 0

C3_Witness ==
    \E i \in Instances :
        /\ gen[i].seed < 0
        /\ Len(gen[i].raws) >= 2
        /\ gen[i].raws[1] = 0
        /\ gen[i].raws[2] # 0

----------------------------------------------------------------------------
(* generateBlocks *)

MIN_BLOCK_SIZE == 150

Block(x, y, w, h) == [x |-> x, y |-> y, width |-> w, height |-> h]

\* the depth test written with > instead of >=
AtMaxDepthStrict(depth, maxDepth) == depth > maxDepth

\* if (depth >= maxDepth) return [block]
AtMaxDepth(depth, maxDepth) == depth >= maxDepth

\* block.width < MIN_BLOCK_SIZE && block.height < MIN_BLOCK_SIZE
TooSmall(block) ==
    block.width < MIN_BLOCK_SIZE /\ block.height < MIN_BLOCK_SIZE

\* rng.next() < 0.2 for the draw s / 233280.  s / 233280 = 1/5 only for
\* s = 46656, where the quotient is the double 0.2 itself, so the double
\* comparison is the rational one.
StopDraw(s) == s * 5 < Modulus

\* the horizontal branch without its `block.height > MIN_BLOCK_SIZE` test
SplitsHorizontallyAnySize(block) == block.height > block.width

\* splitHorizontally && block.height > MIN_BLOCK_SIZE
SplitsHorizontally(block) ==
    block.height > block.width /\ block.height > MIN_BLOCK_SIZE

\* the vertical branch without its `block.width > MIN_BLOCK_SIZE` test
SplitsVerticallyAnySize(block) == block.width > block.height

\* splitVertically && block.width > MIN_BLOCK_SIZE (the else-if branch)
SplitsVertically(block) ==
    block.width > block.height /\ block.width > MIN_BLOCK_SIZE

\* the split point taken anywhere along the extent: rng.next() in place of
\* rng.next() * 0.4 + 0.3
SplitPointAnywhere(origin, extent, s) == origin + (extent * s) \div Modulus

\* Math.floor(origin + extent * (rng.next() * 0.4 + 0.3)) for the draw
\* s / 233280: s/233280 * 2/5 + 3/10 = (2s + 349920) / 1166400.  The double
\* evaluation can differ from this floor only when the exact value is an
\* integer (otherwise it is at least 1/1166400 away from one); see
\* SplitsAreOffInteger.
SplitPoint(origin, extent, s) ==
    origin + (extent * (2 * s + (3 * Modulus) \div 2)) \div (5 * Modulus)

\* blockB of a horizontal split with height block.height - splitPoint
SplitHorizontalNoOrigin(block, sp) ==
    << Block(block.x, block.y, block.width, sp - block.y),
       Block(block.x, sp, block.width, block.height - sp) >>

\* blockA and blockB of a horizontal split at y = sp
SplitHorizontal(block, sp) ==
    << Block(block.x, block.y, block.width, sp - block.y),
       Block(block.x, sp, block.width, block.y + block.height - sp) >>

\* the two halves of a vertical split handed on in the other order
SplitVerticalSwapped(block, sp) ==
    << Block(sp, block.y, block.x + block.width - sp, block.height),
       Block(block.x, block.y, sp - block.x, block.height) >>

\* blockA and blockB of a vertical split at x = sp
SplitVertical(block, sp) ==
    << Block(block.x, block.y, sp - block.x, block.height),
       Block(sp, block.y, block.x + block.width - sp, block.height) >>

\* One entry of the call log: the rectangle and depth of a call, how it
\* ended, the draws it took itself and, for a split, the draw and the point.
Node(block, depth, kind, draws, sp) ==
    [block |-> block, depth |-> depth, kind |-> kind, draws |-> draws, sp |-> sp]

Leaf(block, depth, kind, rng, draws) ==
    [blocks |-> <<block>>, rng |-> rng,
     nodes |-> <<Node(block, depth, kind, draws, 0)>>, draws |-> draws]

Join(block, depth, kind, own, sp, a, b) ==
    [blocks |-> a.blocks \o b.blocks, rng |-> b.rng,
     nodes |-> <<Node(block, depth, kind, own, sp)>> \o a.nodes \o b.nodes,
     draws |-> own \o a.draws \o b.draws]

RECURSIVE generateBlocks(_, _, _, _)

\* generateBlocks(block, depth, maxDepth, rng), rng given by the value of
\* its field.  Result: the returned list, the field afterwards, the log of
\* the calls made (pre-order) and the draws taken, in order.
generateBlocks(block, depth, maxDepth, rng) ==
    IF AtMaxDepth(depth, maxDepth)
    THEN Leaf(block, depth, "maxDepth", rng, <<>>)
    ELSE IF TooSmall(block)
    THEN Leaf(block, depth, "tooSmall", rng, <<>>)
    ELSE
      LET s1 == next(rng) IN
      IF StopDraw(s1) /\ depth > 0
      THEN Leaf(block, depth, "randomStop", s1, <<s1>>)
      ELSE IF SplitsHorizontally(block)
      THEN
        LET s2 == next(s1)
            sp == SplitPoint(block.y, block.height, s2)
            ab == SplitHorizontal(block, sp)
            a  == generateBlocks(ab[1], depth + 1, maxDepth, s2)
            b  == generateBlocks(ab[2], depth + 1, maxDepth, a.rng)
        IN  Join(block, depth, "splitH", <<s1, s2>>, sp, a, b)
      ELSE IF SplitsVertically(block)
      THEN
        LET s2 == next(s1)
            sp == SplitPoint(block.x, block.width, s2)
            ab == SplitVertical(block, sp)
            a  == generateBlocks(ab[1], depth + 1, maxDepth, s2)
            b  == generateBlocks(ab[2], depth + 1, maxDepth, a.rng)
        IN  Join(block, depth, "splitV", <<s1, s2>>, sp, a, b)
      ELSE Leaf(block, depth, "noSplit", s1, <<s1>>)

PartSeeds == {-1, 0, 42, 43, 1000}
PartRects ==
    { Block(0, 0, 800, 600), Block(0, 0, 600, 800), Block(0, 0, 400, 400),
      Block(0, 0, 400, 300), Block(0, 0, 150, 140), Block(0, 0, 150, 150),
      Block(0, 0, 140, 151), Block(0, 0, 100, 100), Block(10, 20, 300, 500),
      Block(5, 7, 1, 1) }

InitPartition ==
    /\ \E s \in PartSeeds : \E d \in 0..MaxMaxDepth : \E r \in PartRects :
          part = [stage |-> "ready", seed |-> s, maxDepth |-> d, rect |-> r]
    /\ gen = <<>>
    /\ canvas = NoCanvas
    /\ started = NoCanvas
    /\ surface = NoCanvas
    /\ ServerIdle
    /\ SyncIdle
    /\ ToneIdle

\* const rng = new SeededRandom(seed); generateBlocks(rect, 0, maxDepth, rng)
RunPartition ==
    /\ part.stage = "ready"
    /\ LET r == generateBlocks(part.rect, 0, part.maxDepth, SeededRandom(part.seed))
       IN  part' = [stage |-> "done", seed |-> part.seed,
                    maxDepth |-> part.maxDepth, rect |-> part.rect,
                    blocks |-> r.blocks, nodes |-> r.nodes,
                    draws |-> r.draws, rng |-> r.rng]
    /\ UNCHANGED <<gen, canvas, started, surface, serverVars, syncVars, toneVars, orbit>>

NextPartition == RunPartition

SpecPartition == InitPartition /\ [][NextPartition]_vars

----------------------------------------------------------------------------
(* Claims about generateBlocks *)

RECURSIVE AreaSum(_)
AreaSum(bs) ==
    IF bs = <<>> THEN 0
    ELSE Head(bs).width * Head(bs).height + AreaSum(Tail(bs))

Inside(b, r) ==
    /\ r.x <= b.x /\ b.x + b.width <= r.x + r.width
    /\ r.y <= b.y /\ b.y + b.height <= r.y + r.height
    /\ b.width >= 0 /\ b.height >= 0

Overlap(a, b) ==
    /\ a.x < b.x + b.width /\ b.x < a.x + a.width
    /\ a.y < b.y + b.height /\ b.y < a.y + a.height

Tiles(bs, r) ==
    /\ \A i \in 1..Len(bs) : Inside(bs[i], r)
    /\ \A i \in 1..Len(bs) : \A j \in 1..Len(bs) :
          i < j => ~Overlap(bs[i], bs[j])
    /\ AreaSum(bs) = r.width * r.height

SplitKinds == {"splitH", "splitV"}

\* C4: the blocks returned for (rect, 0, maxDepth, rng) tile rect: each
\* lies inside it, no two overlap in positive area, the areas add up.
C4_BlocksTileRect ==
    part.stage = "done" => Tiles(part.blocks, part.rect)

C4_Witness ==
    /\ part.stage = "done"
    /\ part.rect = Block(10, 20, 300, 500)
    /\ Len(part.blocks) >= 4
    /\ \E i \in 1..Len(part.nodes) : part.nodes[i].kind = "splitH"
    /\ \E i \in 1..Len(part.nodes) : part.nodes[i].kind = "splitV"

\* C5: no call is made with depth > maxDepth, a call with
\* depth >= maxDepth returns its rectangle unsplit without a draw, so
\* every returned block is at most maxDepth splits below the root.
C5_DepthBound ==
    part.stage = "done" =>
        \A i \in 1..Len(part.nodes) :
            /\ part.nodes[i].depth <= part.maxDepth
            /\ part.nodes[i].depth >= part.maxDepth =>
                  /\ part.nodes[i].kind = "maxDepth"
                  /\ part.nodes[i].draws = <<>>

C5_Witness ==
    /\ part.stage = "done"
    /\ part.maxDepth >= 2
    /\ \E i \in 1..Len(part.nodes) :
          /\ part.nodes[i].depth = part.maxDepth
          /\ part.nodes[i].kind = "maxDepth"
          /\ part.nodes[i].block.width > MIN_BLOCK_SIZE

\* C6: a rectangle is split only if the dimension that is split exceeds
\* 150; a rectangle with width <= 150 and height <= 150 is returned unsplit.
C6_MinimumSize ==
    part.stage = "done" =>
        \A i \in 1..Len(part.nodes) :
            LET n == part.nodes[i] IN
            /\ n.kind \in SplitKinds =>
                  (n.block.width > 150 \/ n.block.height > 150)
            /\ (n.block.width <= 150 /\ n.block.height <= 150) =>
                  n.kind \notin SplitKinds

C6_Witness ==
    /\ part.stage = "done"
    /\ \E i \in 1..Len(part.nodes) :
          /\ part.nodes[i].kind = "noSplit"
          /\ part.nodes[i].block.width = 150
          /\ part.nodes[i].block.height <= 150

\* Validity of SplitPoint: no split of the runs below lands exactly on an
\* integer before the floor, so the double floor is the exact floor.
SplitsAreOffInteger ==
    part.stage = "done" =>
        \A i \in 1..Len(part.nodes) :
            LET n == part.nodes[i] IN
            n.kind \in SplitKinds =>
                LET e == IF n.kind = "splitH" THEN n.block.height ELSE n.block.width
                IN  (e * (2 * n.draws[2] + 349920)) % 1166400 # 0

----------------------------------------------------------------------------
(* drawComposition and generateMondrianComposition *)

PRIMARY_COLORS == <<"#FF0000", "#0000FF", "#FFFF00">>
BACKGROUND_COLOR == "#FFFFFF"

\* the colour test turned round: rng.next() >= colorChance
ColorDrawInverted(s, colorChance) == s * 1000 >= colorChance * Modulus

\* rng.next() < colorChance for the draw s / 233280, colorChance given in
\* thousandths
ColorDraw(s, colorChance) == s * 1000 < colorChance * Modulus

\* Math.floor(rng.next() * PRIMARY_COLORS.length)
ColorIndex(s) == (s * Len(PRIMARY_COLORS)) \div Modulus

\* ctx.fillStyle = style; ctx.fillRect(x, y, width, height)
FillRect(style, block) ==
    [op |-> "fillRect", style |-> style, lineWidth |-> 0, block |-> block]

\* ctx.strokeStyle = "#000000"; ctx.lineWidth = lineWeight; ctx.strokeRect(...)
StrokeRect(lineWeight, block) ==
    [op |-> "strokeRect", style |-> "#000000", lineWidth |-> lineWeight,
     block |-> block]

RECURSIVE FillBlocks(_, _, _, _)

\* The first loop of drawComposition from block i on.
FillBlocks(blocks, i, colorChance, rng) ==
    IF i > Len(blocks)
    THEN [ops |-> <<>>, rng |-> rng, draws |-> <<>>]
    ELSE
      LET s1 == next(rng) IN
      IF ColorDraw(s1, colorChance)
      THEN
        LET s2 == next(s1)
            rest == FillBlocks(blocks, i + 1, colorChance, s2)
        IN  [ops |-> <<FillRect(PRIMARY_COLORS[ColorIndex(s2) + 1], blocks[i])>>
                        \o rest.ops,
             rng |-> rest.rng, draws |-> <<s1, s2>> \o rest.draws]
      ELSE
        LET rest == FillBlocks(blocks, i + 1, colorChance, s1)
        IN  [ops |-> <<FillRect(BACKGROUND_COLOR, blocks[i])>> \o rest.ops,
             rng |-> rest.rng, draws |-> <<s1>> \o rest.draws]

\* one loop that fills and strokes each block in turn
drawCompositionInterleaved(blocks, colorChance, lineWeight, rng) ==
    LET f == FillBlocks(blocks, 1, colorChance, rng)
    IN  [ops |-> [i \in 1..(2 * Len(blocks)) |->
                    IF i % 2 = 1 THEN f.ops[(i + 1) \div 2]
                    ELSE StrokeRect(lineWeight, blocks[i \div 2])],
         rng |-> f.rng, draws |-> f.draws]

\* drawComposition(ctx, blocks, colorChance, lineWeight, rng): the calls
\* issued to ctx (fills, then strokes), the generator afterwards, the draws.
drawComposition(blocks, colorChance, lineWeight, rng) ==
    LET f == FillBlocks(blocks, 1, colorChance, rng)
    IN  [ops |-> f.ops \o [i \in 1..Len(blocks) |-> StrokeRect(lineWeight, blocks[i])],
         rng |-> f.rng, draws |-> f.draws]

NotDrawn == [drawn |-> FALSE]

\* What one composition leaves behind, starting from a generator in `rng`.
Composition(params, rng) ==
    LET initialBlock == Block(0, 0, params.width, params.height)
        g == generateBlocks(initialBlock, 0, params.depth, rng)
        d == drawComposition(g.blocks, params.colorChance, params.lineWeight, g.rng)
    IN  [drawn |-> TRUE, params |-> params, blocks |-> g.blocks,
         nodes |-> g.nodes,
         ops |-> <<FillRect(BACKGROUND_COLOR, initialBlock)>> \o d.ops,
         draws |-> g.draws \o d.draws, rng |-> d.rng]

\* the generator kept in a module-level variable and constructed only for
\* the first composition on a context
generateMondrianCompositionKeptRng(ctx, params) ==
    Composition(params, IF surface[ctx].drawn THEN surface[ctx].rng
                        ELSE SeededRandom(params.seed))

\* generateMondrianComposition(ctx, params)
generateMondrianComposition(ctx, params) ==
    Composition(params, SeededRandom(params.seed))

----------------------------------------------------------------------------
(* The client: CanvasManager and the generate listener of MondrianApp *)

DepthMin == 4
DepthMax == 6

ComposeSeeds == {42, 43}
Sizes == {<<800, 600>>, <<600, 800>>, <<400, 300>>}
Events ==
    { [seed |-> s, depth |-> d, colorChance |-> w[1], lineWeight |-> w[2]] :
        s \in ComposeSeeds, d \in DepthMin..DepthMax,
        w \in {<<200, 12>>, <<350, 30>>} }

InitCompose ==
    /\ canvas \in [Clients -> Sizes]
    /\ started = [c \in Clients |-> FALSE]
    /\ surface = [c \in Clients |-> NotDrawn]
    /\ gen = <<>>
    /\ part = NoPart
    /\ ServerIdle
    /\ SyncIdle
    /\ ToneIdle

\* MondrianApp.start()
Start(c) ==
    /\ ~started[c]
    /\ started' = [started EXCEPT ![c] = TRUE]
    /\ UNCHANGED <<gen, part, canvas, surface, serverVars, syncVars, toneVars, orbit>>

\* CanvasManager.resizeCanvas() after the window changed size
ResizeCanvas(c) ==
    /\ \E sz \in Sizes \ {canvas[c]} : canvas' = [canvas EXCEPT ![c] = sz]
    /\ UNCHANGED <<gen, part, started, surface, serverVars, syncVars, toneVars, orbit>>

\* socketClient.onGenerate listener; before start() it returns at once.
OnGenerate(c) ==
    /\ started[c]
    /\ \E event \in Events :
          LET params == [seed |-> event.seed, depth |-> event.depth,
                         colorChance |-> event.colorChance,
                         lineWeight |-> event.lineWeight,
                         width |-> canvas[c][1], height |-> canvas[c][2]]
          IN  surface' = [surface EXCEPT ![c] = generateMondrianComposition(c, params)]
    /\ UNCHANGED <<gen, part, canvas, started, serverVars, syncVars, toneVars, orbit>>

NextCompose ==
    \/ \E c \in Clients : Start(c)
    \/ \E c \in Clients : ResizeCanvas(c)
    \/ \E c \in Clients : OnGenerate(c)

SpecCompose == InitCompose /\ [][NextCompose]_vars

----------------------------------------------------------------------------
(* Claims about the partition and the composition on the clients *)

Drawn(c) == surface[c].drawn

SameInput(c1, c2) ==
    /\ surface[c1].params.seed = surface[c2].params.seed
    /\ surface[c1].params.depth = surface[c2].params.depth
    /\ surface[c1].params.width = surface[c2].params.width
    /\ surface[c1].params.height = surface[c2].params.height

\* C7: generateBlocks is a function of (seed, maxDepth, rectangle): two
\* compositions with the same seed, depth and canvas size, each with its
\* own fresh generator, have the same blocks in the same order, whatever
\* was composed before them and whatever their colorChance and lineWeight.
C7_SamePartition ==
    \A c1 \in Clients : \A c2 \in Clients :
        (Drawn(c1) /\ Drawn(c2) /\ SameInput(c1, c2))
            => surface[c1].blocks = surface[c2].blocks

C7_Witness ==
    /\ Drawn(1) /\ Drawn(2)
    /\ surface[1].params.seed = 42 /\ surface[2].params.seed = 42
    /\ surface[1].params.depth = 4 /\ surface[2].params.depth = 4
    /\ canvas[1] = <<800, 600>> /\ canvas[2] = <<800, 600>>
    /\ surface[1].params.width = 800 /\ surface[1].params.height = 600
    /\ surface[2].params.width = 800 /\ surface[2].params.height = 600
    /\ surface[1].params.colorChance # surface[2].params.colorChance
    /\ Len(surface[1].blocks) = 9
    /\ surface[1].blocks[1] = Block(0, 0, 294, 117)
    /\ surface[1].blocks = surface[2].blocks

Is800x600Depth4(c, seed) ==
    /\ Drawn(c)
    /\ surface[c].params.seed = seed
    /\ surface[c].params.depth = 4
    /\ surface[c].params.width = 800
    /\ surface[c].params.height = 600

\* C8: at depth 4 on 800x600 the block list of seed 43 is not the block
\* list of seed 42.
C8_Seed43Differs ==
    \A c1 \in Clients : \A c2 \in Clients :
        (Is800x600Depth4(c1, 42) /\ Is800x600Depth4(c2, 43))
            => surface[c1].blocks # surface[c2].blocks

C8_Witness ==
    /\ Is800x600Depth4(1, 42)
    /\ Is800x600Depth4(2, 43)
    /\ Len(surface[1].blocks) = 9
    /\ Len(surface[2].blocks) = 13

\* The draws of one composition are consecutive values of the stream that
\* starts at the normalised seed: nothing was drawn before them and the
\* generator was not restarted between the partition and the fills.
IsFreshStream(seed, draws) ==
    LET m == IF seed >= 0 THEN seed % 233280 ELSE 0 - ((0 - seed) % 233280)
        start == IF m <= 0 THEN m + 233280 ELSE m
    IN  \A k \in 1..Len(draws) :
            draws[k] = LcgOf(IF k = 1 THEN start ELSE draws[k - 1])

\* C9: a composition depends on its params only: two contexts whose last
\* composition had equal params received the same calls (rectangles and
\* colours) whatever either had composed before, and every composition
\* draws from a generator built fresh from its seed, the fills continuing
\* where the partition stopped.
C9_ParamsDetermineComposition ==
    /\ \A c1 \in Clients : \A c2 \in Clients :
          (Drawn(c1) /\ Drawn(c2) /\ surface[c1].params = surface[c2].params)
              => surface[c1].ops = surface[c2].ops
    /\ \A c \in Clients :
          Drawn(c) =>
              /\ IsFreshStream(surface[c].params.seed, surface[c].draws)
              /\ Len(surface[c].draws) > 0
              /\ surface[c].rng = surface[c].draws[Len(surface[c].draws)]

C9_Witness ==
    /\ Drawn(1) /\ Drawn(2)
    /\ surface[1].params = surface[2].params
    /\ surface[1].params.seed = 43
    /\ surface[1].ops = surface[2].ops
    /\ \E i \in 1..Len(surface[1].ops) :
          /\ surface[1].ops[i].op = "fillRect"
          /\ surface[1].ops[i].style = "#0000FF"
    /\ Len(surface[1].draws) > Len(surface[1].nodes)

Decision(n) ==
    IF n.kind = "splitH" THEN <<"horizontal", n.draws[2]>>
    ELSE IF n.kind = "splitV" THEN <<"vertical", n.draws[2]>>
    ELSE <<"stop", 0>>

\* The choices of a composition that do not mention coordinates: per call
\* (pre-order) stop or split, the axis and the ratio draw; per block its
\* fill colour.
Structure(s) ==
    [decisions |-> [i \in 1..Len(s.nodes) |-> Decision(s.nodes[i])],
     colours |-> [i \in 1..Len(s.blocks) |-> s.ops[i + 1].style]]

\* C10: two clients that handled the same generate event (seed, depth,
\* colorChance) on canvases of different size made the same structural
\* choices: same stops and splits, same axes and ratios, same colours.
C10_SameStructureOnAnyCanvas ==
    \A c1 \in Clients : \A c2 \in Clients :
        ( /\ Drawn(c1) /\ Drawn(c2)
          /\ surface[c1].params.seed = surface[c2].params.seed
          /\ surface[c1].params.depth = surface[c2].params.depth
          /\ surface[c1].params.colorChance = surface[c2].params.colorChance
          /\ surface[c1].params.lineWeight = surface[c2].params.lineWeight )
            => Structure(surface[c1]) = Structure(surface[c2])

\* Validity of SplitPoint on the clients' compositions.
ClientSplitsAreOffInteger ==
    \A c \in Clients :
        Drawn(c) =>
            \A i \in 1..Len(surface[c].nodes) :
                LET n == surface[c].nodes[i] IN
                n.kind \in SplitKinds =>
                    LET e == IF n.kind = "splitH" THEN n.block.height
                             ELSE n.block.width
                    IN  (e * (2 * n.draws[2] + 349920)) % 1166400 # 0

----------------------------------------------------------------------------
(* The server: session registry, broadcast scheduler, shutdown *)

GENERATION_INTERVAL == 5000
StartupDelay == 1000

MaxSessions == 2       \* connections accepted in one run
MaxClock == 5000       \* the server clock stops advancing here
ClockStep == 1000      \* granularity of the passage of time

\* Math.random() results, in thousandths: the least value and one near 1.
Randoms == {0, 995}
ClientTimes == {0, 1234}
Signals == {"SIGINT", "SIGTERM"}

None == [op |-> "none"]

Size(reg) == Cardinality(DOMAIN reg)

\* connectedClients.set(id, {id, connectedAt: Date.now()})
MapSet(reg, id, now) ==
    [k \in DOMAIN reg \cup {id} |->
        IF k = id THEN [id |-> id, connectedAt |-> now] ELSE reg[k]]

\* the disconnect handler without connectedClients.delete
MapKeep(reg, id) == reg

\* connectedClients.delete(id)
MapDelete(reg, id) == [k \in DOMAIN reg \ {id} |-> reg[k]]

\* socket.emit("welcome", {clientId: socket.id, serverTime: Date.now()})
WelcomeEvent(id, now) ==
    [type |-> "welcome", to |-> {id}, clientId |-> id, serverTime |-> now]

\* users sent with socket.broadcast.emit: everyone but the socket itself
UserCountToOthers(reg, targets, id) ==
    [type |-> "users", to |-> targets \ {id}, count |-> Size(reg)]

\* broadcastUserCount(): io.emit("users", {count: connectedClients.size});
\* targets are the sockets connected to the namespace.
broadcastUserCount(reg, targets, id) ==
    [type |-> "users", to |-> targets, count |-> Size(reg)]

\* the connection handler without its welcome
ConnectionEmitsNoWelcome(id, now, reg, targets) ==
    << broadcastUserCount(reg, targets, id) >>

\* what the connection handler emits, in order: socket.emit("welcome", ...)
\* and then broadcastUserCount(), the registry already holding the new id
ConnectionEmits(id, now, reg, targets) ==
    << WelcomeEvent(id, now), broadcastUserCount(reg, targets, id) >>

\* the reply with serverTime - clientTime in place of the echoed clientTime
SyncReplyElapsed(id, now, data) ==
    << [type |-> "sync", to |-> {id}, serverTime |-> now,
        clientTime |-> now - data.clientTime] >>

\* sync_request handler: socket.emit("sync", {serverTime: Date.now(),
\* clientTime: data.clientTime})
SyncReply(id, now, data) ==
    << [type |-> "sync", to |-> {id}, serverTime |-> now,
        clientTime |-> data.clientTime] >>

\* lineWeight drawn as Math.floor(Math.random() * 20) + 12
generateRandomParamsWide(u1, u2, u3) ==
    [depth |-> (u1 * 3) \div 1000 + 4,
     colorChance |-> (u2 * 200) \div 1000 + 200,
     lineWeight |-> (u3 * 20) \div 1000 + 12]

\* generateRandomParams: depth Math.floor(Math.random() * 3) + 4,
\* colorChance Math.random() * 0.2 + 0.2 (in thousandths; exact for the
\* multiples of 0.005 in Randoms), lineWeight Math.floor(Math.random() * 19) + 12
generateRandomParams(u1, u2, u3) ==
    [depth |-> (u1 * 3) \div 1000 + 4,
     colorChance |-> (u2 * 200) \div 1000 + 200,
     lineWeight |-> (u3 * 19) \div 1000 + 12]

\* getRandomFrequency(): Math.random() * (880 - 220) + 220, in millihertz
getRandomFrequency(u) == u * (880 - 220) + 220 * 1000

\* the size test dropped from generateAndBroadcast
IsIdleNever(reg) == FALSE

\* connectedClients.size === 0
IsIdle(reg) == Size(reg) = 0

\* the audio event emitted before the generate event
BroadcastPairSwapped(g, a) == <<a, g>>

\* io.emit("generate", ...) and then io.emit("audio", ...)
BroadcastPair(g, a) == <<g, a>>

\* a generateAndBroadcast() in which a disconnect is handled between the two
\* broadcasts
generateAndBroadcastInterrupted(reg, targets, now, rnd) ==
    IF IsIdle(reg) THEN <<>>
    ELSE
      LET params == generateRandomParams(rnd[1], rnd[2], rnd[3])
          frequencies == <<getRandomFrequency(rnd[5])>>
      IN  BroadcastPair(
            [type |-> "generate", to |-> targets, timestamp |-> now,
             seed |-> now, depth |-> params.depth,
             colorChance |-> params.colorChance,
             lineWeight |-> params.lineWeight,
             duration |-> GENERATION_INTERVAL],
            [type |-> "audio", to |-> {id \in targets : id = 1},
             timestamp |-> now,
             frequencies |-> frequencies, duration |-> 5])

\* generateAndBroadcast(): the messages it emits.  rnd are the results of
\* its Math.random() calls in order; Date.now() does not advance inside it.
generateAndBroadcast(reg, targets, now, rnd) ==
    IF IsIdle(reg) THEN <<>>
    ELSE
      LET params == generateRandomParams(rnd[1], rnd[2], rnd[3])
          shouldPlayCombination == rnd[4] * 2 > 1000
          frequencies ==
              IF shouldPlayCombination
              THEN <<getRandomFrequency(rnd[5]), getRandomFrequency(rnd[6])>>
              ELSE <<getRandomFrequency(rnd[5])>>
      IN  BroadcastPair(
            [type |-> "generate", to |-> targets, timestamp |-> now,
             seed |-> now, depth |-> params.depth,
             colorChance |-> params.colorChance,
             lineWeight |-> params.lineWeight,
             duration |-> GENERATION_INTERVAL],
            [type |-> "audio", to |-> targets, timestamp |-> now,
             frequencies |-> frequencies, duration |-> 5])

\* the seeds of the generate events among msgs, in order
SeedsIn(msgs) ==
    LET g == SelectSeq(msgs, LAMBDA m : m.type = "generate")
    IN  [i \in 1..Len(g) |-> g[i].seed]

\* Wall-clock instants, in seconds since 1970-01-01, at which the server
\* may have started listening (2025-01-01 and 2025-11-01); Date.now() is
\* that instant in ms plus `clock`.
ServerStarts == {1735689600, 1761955200}

\* After httpServer.listen called back and startScheduler() ran.
InitServer ==
    /\ clock = 0
    /\ registry = <<>>
    /\ conns = {}
    /\ nextId = 1
    /\ startup = "pending"
    /\ interval = [active |-> TRUE, due |-> GENERATION_INTERVAL]
    /\ phase = "listening"
    /\ sent = <<>>
    /\ lastOp = None
    /\ seeds = <<>>
    /\ lastTick = -1
    /\ gen = <<>> /\ part = NoPart
    /\ canvas = NoCanvas /\ started = NoCanvas /\ surface = NoCanvas
    /\ SyncIdle
    /\ ToneIdle

ServerFrame ==
    UNCHANGED <<gen, part, canvas, started, surface, syncVars, toneVars, orbit>>

\* Time passes; no handler runs.
Advance ==
    /\ phase # "exited"
    /\ clock < MaxClock
    /\ clock' = clock + ClockStep
    /\ sent' = <<>>
    /\ lastOp' = None
    /\ UNCHANGED <<seeds, lastTick, registry, conns, nextId, startup, interval, phase>>
    /\ ServerFrame

\* a connection handler that also sends the latest generate event again
ConnectionReplays ==
    /\ phase = "listening"
    /\ nextId <= MaxSessions
    /\ LET id == nextId IN
       /\ conns' = conns \cup {id}
       /\ registry' = MapSet(registry, id, clock)
       /\ nextId' = nextId + 1
       /\ sent' = ConnectionEmits(id, clock, registry', conns') \o
                  [i \in 1..(IF seeds = <<>> THEN 0 ELSE 1) |->
                      [type |-> "generate", to |-> {id},
                       seed |-> seeds[Len(seeds)],
                       timestamp |-> seeds[Len(seeds)]]]
       /\ lastOp' = [op |-> "connection", id |-> id]
    /\ UNCHANGED <<seeds, lastTick, clock, startup, interval, phase>>
    /\ ServerFrame

\* io.on("connection"): a socket with a fresh id joined the namespace.
Connection ==
    /\ phase = "listening"
    /\ nextId <= MaxSessions
    /\ LET id == nextId IN
       /\ conns' = conns \cup {id}
       /\ registry' = MapSet(registry, id, clock)
       /\ nextId' = nextId + 1
       /\ sent' = ConnectionEmits(id, clock, registry', conns')
       /\ lastOp' = [op |-> "connection", id |-> id]
    /\ UNCHANGED <<seeds, lastTick, clock, startup, interval, phase>>
    /\ ServerFrame

\* socket.on("join"): logs only.
OnJoin(id) ==
    /\ phase # "exited"
    /\ id \in conns
    /\ sent' = <<>>
    /\ lastOp' = [op |-> "join", id |-> id]
    /\ UNCHANGED <<seeds, lastTick, clock, registry, conns, nextId, startup, interval, phase>>
    /\ ServerFrame

\* socket.on("sync_request")
SyncRequest(id) ==
    /\ phase # "exited"
    /\ id \in conns
    /\ \E ct \in ClientTimes :
          LET data == [event |-> "sync_request", clientTime |-> ct] IN
          /\ sent' = SyncReply(id, clock, data)
          /\ lastOp' = [op |-> "sync_request", id |-> id, data |-> data]
    /\ UNCHANGED <<seeds, lastTick, clock, registry, conns, nextId, startup, interval, phase>>
    /\ ServerFrame

\* socket.on("disconnect"): the socket has left the namespace.
Disconnect(id) ==
    /\ phase # "exited"
    /\ id \in conns
    /\ conns' = conns \ {id}
    /\ registry' = MapDelete(registry, id)
    /\ sent' = << broadcastUserCount(registry', conns', id) >>
    /\ lastOp' = [op |-> "disconnect", id |-> id]
    /\ UNCHANGED <<seeds, lastTick, clock, nextId, startup, interval, phase>>
    /\ ServerFrame

\* The setTimeout(..., 1000) of startScheduler fires.
StartupTimeout ==
    /\ phase # "exited"
    /\ startup = "pending"
    /\ clock >= StartupDelay
    /\ \E rnd \in [1..6 -> Randoms] :
          sent' = generateAndBroadcast(registry, conns, clock, rnd)
    /\ startup' = "fired"
    /\ seeds' = seeds \o SeedsIn(sent')
    /\ lastTick' = clock
    /\ lastOp' = [op |-> "tick", timer |-> "timeout"]
    /\ UNCHANGED <<clock, registry, conns, nextId, interval, phase>>
    /\ ServerFrame

\* The setInterval(..., GENERATION_INTERVAL) fires and is re-armed.
IntervalTick ==
    /\ phase # "exited"
    /\ interval.active
    /\ clock >= interval.due
    /\ \E rnd \in [1..6 -> Randoms] :
          sent' = generateAndBroadcast(registry, conns, clock, rnd)
    /\ interval' = [interval EXCEPT !.due = clock + GENERATION_INTERVAL]
    /\ seeds' = seeds \o SeedsIn(sent')
    /\ lastTick' = clock
    /\ lastOp' = [op |-> "tick", timer |-> "interval"]
    /\ UNCHANGED <<clock, registry, conns, nextId, startup, phase>>
    /\ ServerFrame

\* process.on("SIGINT") / process.on("SIGTERM"): stopScheduler(), then
\* httpServer.close(callback): no new connection is accepted.
\* stopScheduler() clears generationInterval only; the handle of the startup
\* setTimeout was never kept, so that timer stays as it is.
Signal ==
    /\ phase \in {"listening", "closing"}
    /\ \E sig \in Signals : lastOp' = [op |-> "signal", signal |-> sig]
    /\ interval' = [interval EXCEPT !.active = FALSE]
    /\ phase' = "closing"
    /\ sent' = <<>>
    /\ UNCHANGED <<seeds, lastTick, clock, registry, conns, nextId, startup>>
    /\ ServerFrame

\* The callback of httpServer.close: every connection has ended;
\* process.exit(0).
Closed ==
    /\ phase = "closing"
    /\ conns = {}
    /\ phase' = "exited"
    /\ sent' = <<>>
    /\ lastOp' = [op |-> "exit"]
    /\ UNCHANGED <<seeds, lastTick, clock, registry, conns, nextId, startup, interval>>
    /\ ServerFrame

\* What a client can send in place of the expected payload: nothing
\* (undefined) or a number.
Payloads == {"undefined", "number"}
ClientEvents == {"join", "sync_request", "unknown"}

\* data.userAgent / data.clientTime: reading a property of undefined or of
\* null throws a TypeError; of a number or of an object lacking it, the
\* result is undefined.
ReadThrows(data) == data \in {"undefined", "null"}

\* The messages the handler of `event` emits on a payload it can read.
HandlerEmits(event, id, now) ==
    IF event = "sync_request"
    THEN SyncReply(id, now, [clientTime |-> "undefined"])
    ELSE <<>>

\* A client sends an event the server has no listener for, or a join or
\* sync_request with an unexpected payload.  No listener: nothing runs.  The
\* join and sync_request listeners read a property of the payload with no
\* guard and no try/catch; nothing in the server catches what they throw, so
\* the exception ends the process.
UnexpectedMessage(id) ==
    /\ phase # "exited"
    /\ id \in conns
    /\ \E event \in ClientEvents : \E data \in Payloads :
          LET threw == event # "unknown" /\ ReadThrows(data) IN
          /\ lastOp' = [op |-> "unexpected", id |-> id, event |-> event,
                        data |-> data, threw |-> threw]
          /\ sent' = IF threw \/ event = "unknown" THEN <<>>
                     ELSE HandlerEmits(event, id, clock)
          /\ phase' = IF threw THEN "exited" ELSE phase
    /\ UNCHANGED <<seeds, lastTick, clock, registry, conns, nextId, startup, interval>>
    /\ ServerFrame

NextServer ==
    \/ Advance
    \/ Connection
    \/ \E id \in 1..MaxSessions : OnJoin(id)
    \/ \E id \in 1..MaxSessions : SyncRequest(id)
    \/ \E id \in 1..MaxSessions : Disconnect(id)
    \/ \E id \in 1..MaxSessions : UnexpectedMessage(id)
    \/ StartupTimeout
    \/ IntervalTick
    \/ Signal
    \/ Closed

SpecServer == InitServer /\ [][NextServer]_vars

\* The handler that ran in the step is a scheduler tick.
IsTick == lastOp'.op = "tick"

\* C11: a scheduler tick that finds the registry empty emits no message and
\* leaves the registry (and the set of connected sockets) as it was.
C11_IdleTickIsSilent ==
    [][(IsTick /\ Size(registry) = 0) =>
          (sent' = <<>> /\ registry' = registry /\ conns' = conns)]_vars

C11_Witness ==
    /\ lastOp.op = "tick"
    /\ lastOp.timer = "interval"
    /\ registry = <<>>
    /\ nextId > 1
    /\ sent = <<>>

GenerateFields == {"seed", "depth", "colorChance", "lineWeight", "timestamp"}

\* C12: a scheduler tick that finds at least one session emits exactly two
\* messages: one generate event carrying seed, depth, colorChance, lineWeight
\* and timestamp, then one audio event, each addressed to every session of
\* the registry.
C12_TickBroadcastsGenerateThenAudio ==
    [][(IsTick /\ Size(registry) > 0) =>
          /\ Len(sent') = 2
          /\ sent'[1].type = "generate"
          /\ GenerateFields \subseteq DOMAIN sent'[1]
          /\ sent'[1].seed = clock /\ sent'[1].timestamp = clock
          /\ sent'[1].to = DOMAIN registry
          /\ sent'[2].type = "audio"
          /\ sent'[2].to = DOMAIN registry
          /\ sent'[2].timestamp = clock
          /\ registry' = registry]_vars

C12_Witness ==
    /\ lastOp.op = "tick"
    /\ DOMAIN registry = {1, 2}
    /\ Len(sent) = 2
    /\ sent[1].type = "generate" /\ sent[1].to = {1, 2}
    /\ sent[2].type = "audio" /\ sent[2].to = {1, 2}

\* C13: every generate event has depth in {4, 5, 6}, colorChance in
\* [0.2, 0.4] and an integer lineWeight in 12..30; every audio event has one
\* or two frequencies, each in [220, 880] Hz.
C13_EventRanges ==
    \A i \in 1..Len(sent) :
        /\ sent[i].type = "generate" =>
              /\ sent[i].depth \in {4, 5, 6}
              /\ sent[i].colorChance \in 200..400
              /\ sent[i].lineWeight \in 12..30
        /\ sent[i].type = "audio" =>
              /\ Len(sent[i].frequencies) \in {1, 2}
              /\ \A k \in 1..Len(sent[i].frequencies) :
                    sent[i].frequencies[k] \in 220000..880000

C13_Witness ==
    /\ lastOp.op = "tick"
    /\ Len(sent) = 2
    /\ sent[1].depth = 6
    /\ sent[1].lineWeight = 30
    /\ sent[1].colorChance = 399
    /\ Len(sent[2].frequencies) = 2
    /\ sent[2].frequencies[1] = 220000
    /\ sent[2].frequencies[2] > 870000

UsersIn(msgs) == {i \in 1..Len(msgs) : msgs[i].type = "users"}

\* C14: every step that adds a session to the registry or removes one emits
\* exactly one users message, addressed to all the sockets connected after
\* the step, whose count is the size of the registry after the step; the
\* client that connects to an empty registry receives count 1.
C14_UsersAfterEveryChange ==
    [][(registry' # registry) =>
          /\ Cardinality(UsersIn(sent')) = 1
          /\ \A i \in UsersIn(sent') :
                /\ sent'[i].to = conns'
                /\ sent'[i].count = Size(registry')
                /\ (registry = <<>> =>
                       sent'[i].count = 1 /\ lastOp'.id \in sent'[i].to)]_vars

C14_Witness ==
    /\ lastOp.op = "connection"
    /\ lastOp.id = 2
    /\ Len(sent) = 2
    /\ sent[2].type = "users"
    /\ sent[2].count = 2
    /\ sent[2].to = {1, 2}

\* C15: the registry holds exactly the ids of the sockets that connected and
\* have not disconnected, each under its own id, and its size is never
\* negative.
C15_RegistryIsConnectedSet ==
    /\ DOMAIN registry = conns
    /\ \A id \in DOMAIN registry : registry[id].id = id
    /\ Size(registry) >= 0
    /\ Size(registry) = Cardinality(conns)

C15_Witness ==
    /\ lastOp.op = "disconnect"
    /\ lastOp.id = 1
    /\ DOMAIN registry = {2}
    /\ conns = {2}

\* C16: a sync_request carrying clientTime is answered by exactly one sync
\* message, sent to the requesting session only, that echoes clientTime
\* unmodified and carries the server clock as serverTime; the registry is
\* unchanged.
C16_SyncEchoesClientTime ==
    [][(lastOp'.op = "sync_request") =>
          /\ Len(sent') = 1
          /\ sent'[1].type = "sync"
          /\ sent'[1].to = {lastOp'.id}
          /\ sent'[1].clientTime = lastOp'.data.clientTime
          /\ sent'[1].serverTime = clock
          /\ registry' = registry
          /\ conns' = conns]_vars

C16_Witness ==
    /\ lastOp.op = "sync_request"
    /\ lastOp.id = 2
    /\ lastOp.data.clientTime = 1234
    /\ conns = {1, 2}
    /\ clock = 2 * ClockStep
    /\ Len(sent) = 1
    /\ sent[1].to = {2}
    /\ sent[1].clientTime = 1234
    /\ sent[1].serverTime = clock

\* C20: after the server handled SIGINT or SIGTERM and until the process
\* exits, no scheduler tick broadcasts a generate or audio event.
C20_NoBroadcastAfterSignal ==
    phase = "closing" => ~(lastOp.op = "tick" /\ sent # <<>>)

----------------------------------------------------------------------------
(* Clock synchronisation: one MondrianSocketClient and the server *)

SYNC_INTERVAL == 30000

MaxSyncClock == 32000   \* the clock stops advancing here
MaxLatency == 2000      \* time is followed this far into each sync period

\* server clock minus client clock, in ms
Skews == {-2000, 0, 500}

\* Date.now() on the client
ClientNow == clock - skew

\* welcome handler: clockOffset = data.serverTime - now, in half milliseconds
OnWelcomeOffset(now, data) == 2 * (data.serverTime - now)

\* the sync handler adding the whole round trip
OnSyncOffsetFullRtt(now, data) ==
    LET rtt == now - data.clientTime
    IN  2 * data.serverTime - (2 * data.clientTime + 2 * rtt)

\* sync handler: rtt = now - data.clientTime;
\* clockOffset = data.serverTime - (data.clientTime + rtt / 2), in half
\* milliseconds so that an odd rtt keeps its half
OnSyncOffset(now, data) ==
    LET rtt == now - data.clientTime
    IN  2 * data.serverTime - (2 * data.clientTime + rtt)

\* requestTimeSync(): the packet it emits
requestTimeSync(now) == [type |-> "sync_request", clientTime |-> now]

\* requestTimeSync() as called: nothing once disconnect() has set the socket
\* to null
requestTimeSyncEmits(now) ==
    IF link.state = "closed" THEN <<>> ELSE <<requestTimeSync(now)>>

\* getServerTime(): Date.now() + clockOffset, in half milliseconds
getServerTime == 2 * ClientNow + clockOffset

JoinEvent == [type |-> "join"]

\* the CONNECT acknowledgement that makes the client fire "connect"
ConnectAck == [type |-> "connect"]

\* socket.emit on the client: written to the connection when connected,
\* kept in the send buffer otherwise
ToWire(q, packets) == IF link.state = "up" THEN q \o packets ELSE q
ToBuffer(b, packets) == IF link.state = "up" THEN b ELSE b \o packets

\* After new MondrianSocketClient(), the server listening.
InitClock ==
    /\ clock = 0
    /\ registry = <<>> /\ conns = {} /\ nextId = 1
    /\ startup = "pending"
    /\ interval = [active |-> TRUE, due |-> GENERATION_INTERVAL]
    /\ phase = "listening"
    /\ sent = <<>> /\ lastOp = <<>> /\ seeds = <<>> /\ lastTick = -1
    /\ skew \in Skews
    /\ link = [state |-> "idle", id |-> 0, welcomed |-> FALSE,
               synced |-> FALSE, timers |-> <<>>]
    /\ upq = <<>> /\ downq = <<>> /\ sendBuffer = <<>>
    /\ clockOffset = 0
    /\ lastSync = [kind |-> "none", n |-> 0]
    /\ ToneIdle
    /\ gen = <<>> /\ part = NoPart
    /\ canvas = NoCanvas /\ started = NoCanvas /\ surface = NoCanvas

ClockFrame ==
    UNCHANGED <<seeds, lastTick, gen, part, canvas, started, surface,
                startup, interval, phase, sent, lastOp, skew, toneVars, orbit>>

\* a scheduler timer of the server has reached its time
TimerDue ==
    \/ startup = "pending" /\ clock >= StartupDelay
    \/ interval.active /\ clock >= interval.due

\* Time passes on both clocks: a short while, or a whole sync period.  A
\* server timer that is due fires before more time passes.
Elapse ==
    /\ ~TimerDue
    /\ \E d \in {ClockStep, SYNC_INTERVAL} :
          /\ d = ClockStep => clock % SYNC_INTERVAL < MaxLatency
          /\ clock + d <= MaxSyncClock
          /\ clock' = clock + d
    /\ UNCHANGED <<registry, conns, nextId, link, upq, downq, sendBuffer,
                   clockOffset, lastSync>>
    /\ ClockFrame

\* connect(): the socket is created and starts connecting.
ClientConnect ==
    /\ link.state = "idle"
    /\ link' = [link EXCEPT !.state = "connecting"]
    /\ UNCHANGED <<clock, registry, conns, nextId, upq, downq, sendBuffer,
                   clockOffset, lastSync>>
    /\ ClockFrame

\* The server accepts the connection and runs its connection handler; the
\* acknowledgement travels ahead of what the handler emits to this socket.
ServerAccept ==
    /\ link.state = "connecting"
    /\ nextId <= MaxSessions
    /\ LET id == nextId
           out == ConnectionEmits(id, clock, registry', conns')
       IN  /\ conns' = conns \cup {id}
           /\ registry' = MapSet(registry, id, clock)
           /\ nextId' = nextId + 1
           /\ link' = [link EXCEPT !.state = "open", !.id = id]
           /\ downq' = <<ConnectAck>> \o
                       SelectSeq(out, LAMBDA m : id \in m.to)
    /\ upq' = <<>>
    /\ UNCHANGED <<clock, sendBuffer, clockOffset, lastSync>>
    /\ ClockFrame

\* The client fires "connect": buffered packets are flushed, then the handler
\* emits join, calls requestTimeSync() and starts one more setInterval.
ClientOnConnect ==
    /\ downq # <<>>
    /\ Head(downq).type = "connect"
    /\ downq' = Tail(downq)
    /\ upq' = upq \o sendBuffer \o <<JoinEvent, requestTimeSync(ClientNow)>>
    /\ sendBuffer' = <<>>
    /\ link' = [link EXCEPT !.state = "up",
                            !.timers = Append(@, clock + SYNC_INTERVAL)]
    /\ UNCHANGED <<clock, registry, conns, nextId, clockOffset, lastSync>>
    /\ ClockFrame

\* The client receives welcome.
ClientOnWelcome ==
    /\ downq # <<>>
    /\ Head(downq).type = "welcome"
    /\ downq' = Tail(downq)
    /\ clockOffset' = OnWelcomeOffset(ClientNow, Head(downq))
    /\ lastSync' = [kind |-> "welcome", n |-> lastSync.n + 1,
                    prev |-> clockOffset,
                    afterSync |-> link.synced,
                    down |-> clock - Head(downq).serverTime]
    /\ link' = [link EXCEPT !.welcomed = TRUE]
    /\ UNCHANGED <<clock, registry, conns, nextId, upq, sendBuffer>>
    /\ ClockFrame

\* The client receives sync.
ClientOnSync ==
    /\ downq # <<>>
    /\ Head(downq).type = "sync"
    /\ downq' = Tail(downq)
    /\ clockOffset' = OnSyncOffset(ClientNow, Head(downq))
    /\ lastSync' = [kind |-> "sync", n |-> lastSync.n + 1,
                    prev |-> clockOffset,
                    afterWelcome |-> link.welcomed,
                    up |-> Head(downq).serverTime
                             - (Head(downq).clientTime + skew),
                    down |-> clock - Head(downq).serverTime]
    /\ link' = [link EXCEPT !.synced = TRUE]
    /\ UNCHANGED <<clock, registry, conns, nextId, upq, sendBuffer>>
    /\ ClockFrame

\* The client receives users: the callback does not touch the clock offset.
ClientOnUsers ==
    /\ downq # <<>>
    /\ Head(downq).type = "users"
    /\ downq' = Tail(downq)
    /\ UNCHANGED <<clock, registry, conns, nextId, link, upq, sendBuffer,
                   clockOffset, lastSync>>
    /\ ClockFrame

\* One of the client's setInterval timers fires: requestTimeSync().
PeriodicSync ==
    /\ \E i \in 1..Len(link.timers) :
          /\ clock >= link.timers[i]
          /\ link' = [link EXCEPT !.timers[i] = clock + SYNC_INTERVAL]
    /\ upq' = ToWire(upq, requestTimeSyncEmits(ClientNow))
    /\ sendBuffer' = ToBuffer(sendBuffer, requestTimeSyncEmits(ClientNow))
    /\ UNCHANGED <<clock, registry, conns, nextId, downq, clockOffset,
                   lastSync>>
    /\ ClockFrame

\* The server receives join: it logs.
ServerOnJoin ==
    /\ upq # <<>>
    /\ Head(upq).type = "join"
    /\ upq' = Tail(upq)
    /\ UNCHANGED <<clock, registry, conns, nextId, link, downq, sendBuffer,
                   clockOffset, lastSync>>
    /\ ClockFrame

\* The server receives sync_request and replies on the same socket.
ServerOnSyncRequest ==
    /\ upq # <<>>
    /\ Head(upq).type = "sync_request"
    /\ upq' = Tail(upq)
    /\ downq' = downq \o SyncReply(link.id, clock, Head(upq))
    /\ UNCHANGED <<clock, registry, conns, nextId, link, sendBuffer,
                   clockOffset, lastSync>>
    /\ ClockFrame

\* The connection is lost: packets in flight are dropped, the server runs
\* its disconnect handler, the client (reconnection: true) connects again.
ConnectionLost ==
    /\ link.state \in {"open", "up"}
    /\ conns' = conns \ {link.id}
    /\ registry' = MapDelete(registry, link.id)
    /\ upq' = <<>>
    /\ downq' = <<>>
    /\ link' = [link EXCEPT !.state = "connecting", !.welcomed = FALSE,
                            !.synced = FALSE]
    /\ UNCHANGED <<clock, nextId, sendBuffer, clockOffset, lastSync>>
    /\ ClockFrame

\* disconnect(): the socket is closed and dropped; the server runs its
\* disconnect handler.  The setInterval timers stay.
ClientDisconnect ==
    /\ link.state \in {"connecting", "open", "up"}
    /\ conns' = conns \ {link.id}
    /\ registry' = MapDelete(registry, link.id)
    /\ upq' = <<>>
    /\ downq' = <<>>
    /\ sendBuffer' = <<>>
    /\ link' = [link EXCEPT !.state = "closed", !.welcomed = FALSE,
                            !.synced = FALSE]
    /\ UNCHANGED <<clock, nextId, clockOffset, lastSync>>
    /\ ClockFrame

\* A scheduler timer of the server fires, generateAndBroadcast(): what it
\* emits to the client's socket goes onto the connection.
ServerTick(timer) ==
    /\ \/ /\ timer = "timeout"
          /\ startup = "pending"
          /\ clock >= StartupDelay
          /\ startup' = "fired"
          /\ interval' = interval
       \/ /\ timer = "interval"
          /\ interval.active
          /\ clock >= interval.due
          /\ interval' = [interval EXCEPT !.due = clock + GENERATION_INTERVAL]
          /\ startup' = startup
    /\ \E r \in Randoms :
          LET out == generateAndBroadcast(registry, conns, clock,
                                          [i \in 1..6 |-> r])
          IN  downq' = downq \o SelectSeq(out, LAMBDA m : link.id \in m.to)
    /\ lastTick' = clock
    /\ UNCHANGED <<clock, registry, conns, nextId, link, upq, sendBuffer,
                   clockOffset, lastSync>>
    /\ UNCHANGED <<seeds, gen, part, canvas, started, surface, phase, sent,
                   lastOp, skew, toneVars, orbit>>

\* a generate handler that takes the event's timestamp as the server time
ClientOnGenerateSyncs ==
    /\ downq # <<>>
    /\ Head(downq).type = "generate"
    /\ downq' = Tail(downq)
    /\ clockOffset' = 2 * (Head(downq).timestamp - ClientNow)
    /\ UNCHANGED <<clock, registry, conns, nextId, link, upq, sendBuffer,
                   lastSync>>
    /\ ClockFrame

\* The client receives generate: the callback gets the event.
ClientOnGenerate ==
    /\ downq # <<>>
    /\ Head(downq).type = "generate"
    /\ downq' = Tail(downq)
    /\ UNCHANGED <<clock, registry, conns, nextId, link, upq, sendBuffer,
                   clockOffset, lastSync>>
    /\ ClockFrame

\* The client receives audio: the callback gets the event.
ClientOnAudio ==
    /\ downq # <<>>
    /\ Head(downq).type = "audio"
    /\ downq' = Tail(downq)
    /\ UNCHANGED <<clock, registry, conns, nextId, link, upq, sendBuffer,
                   clockOffset, lastSync>>
    /\ ClockFrame

NextClock ==
    \/ Elapse
    \/ ClientConnect
    \/ ServerAccept
    \/ ClientOnConnect
    \/ ClientOnWelcome
    \/ ClientOnSync
    \/ ClientOnUsers
    \/ PeriodicSync
    \/ ServerOnJoin
    \/ ServerOnSyncRequest
    \/ ConnectionLost
    \/ ClientDisconnect
    \/ ServerTick("timeout")
    \/ ServerTick("interval")
    \/ ClientOnGenerate
    \/ ClientOnAudio

SpecClock == InitClock /\ [][NextClock]_vars

\* C17: when the client handles a sync response it sets its offset to
\* serverTime - (clientTime + rtt / 2) with rtt = now - clientTime: the new
\* offset is determined by the response and the local receive time alone,
\* whatever the offset was before.
C17_SyncReplacesOffset ==
    [][(lastSync'.n # lastSync.n /\ lastSync'.kind = "sync") =>
          LET data == Head(downq)
              now == clock - skew
              rtt == now - data.clientTime
          IN  clockOffset' = 2 * data.serverTime - (2 * data.clientTime + rtt)]_vars

C17_Witness ==
    /\ lastSync.kind = "sync"
    /\ lastSync.n >= 3
    /\ lastSync.prev # 0
    /\ lastSync.prev # clockOffset

\* C18: after a sync round the estimate is off the true offset by half the
\* difference of the two one-way latencies; with the same latency L in both
\* directions it equals the true offset, for every L >= 0 and every offset.
C18_SymmetricLatencyIsExact ==
    lastSync.kind = "sync" =>
        /\ clockOffset - 2 * skew = lastSync.up - lastSync.down
        /\ lastSync.up = lastSync.down => clockOffset = 2 * skew

C18_Witness ==
    /\ lastSync.kind = "sync"
    /\ skew # 0
    /\ lastSync.up = ClockStep
    /\ lastSync.down = ClockStep
    /\ clockOffset = 2 * skew

\* C19: on each connection the welcome is handled before any sync response
\* of that connection, and it sets the offset to serverTime - now with no
\* round-trip correction.
C19_WelcomeBeforeSync ==
    /\ lastSync.kind = "welcome" =>
          /\ ~lastSync.afterSync
          /\ clockOffset = 2 * (skew - lastSync.down)
    /\ lastSync.kind = "sync" => lastSync.afterWelcome

C19_Witness ==
    /\ lastSync.kind = "sync"
    /\ lastSync.afterWelcome
    /\ lastSync.n >= 4
    /\ link.id = 2
    /\ lastSync.prev = 2 * (skew - ClockStep)

----------------------------------------------------------------------------
(* Claims about the server's error handling and seeds *)

\* C21: a client message with an unknown event name, or a join or
\* sync_request whose payload is missing or not an object, leaves the server
\* running, the sender connected, and the registry and both scheduler timers
\* as they were.
C21_UnexpectedMessageIsIgnored ==
    [][(lastOp'.op = "unexpected") =>
          /\ phase' = phase
          /\ lastOp'.id \in conns'
          /\ registry' = registry
          /\ startup' = startup
          /\ interval' = interval]_vars

Below2To32(start, t) ==
    LET sec == start + t \div 1000
        ms == t % 1000
    IN  sec < 4294967 \/ (sec = 4294967 /\ ms < 296)

\* C23: every seed placed in a broadcast generate event is an integer of the
\* 32-bit range, that is, a natural number below 2^32.
C23_SeedIn32BitRange ==
    \A i \in 1..Len(sent) :
        sent[i].type = "generate" =>
            /\ sent[i].seed \in Nat
            /\ \A start \in ServerStarts : Below2To32(start, sent[i].seed)

\* C24: within one run the seeds of the broadcast generate events are
\* strictly increasing, hence pairwise different.
C24_SeedsStrictlyIncrease ==
    \A i, j \in 1..Len(seeds) : i < j => seeds[i] < seeds[j]

----------------------------------------------------------------------------
(* Claims about the draws and the order inside generateBlocks *)

PartDone == part.stage = "done"

IsSplit(n) == n.kind \in SplitKinds

\* C25: a call on an exact square with both sides above the minimum that is
\* neither at the maximum depth nor stopped by its stop draw takes one more
\* draw for the axis and splits: three draws in all, and two children.
C25_SquareTieBreakSplits ==
    PartDone =>
        \A i \in 1..Len(part.nodes) :
            LET n == part.nodes[i] IN
            ( /\ n.block.width = n.block.height
              /\ n.block.width > MIN_BLOCK_SIZE
              /\ n.kind \notin {"maxDepth", "randomStop"} )
            => (IsSplit(n) /\ Len(n.draws) = 3)

RECURSIVE OwnDraws(_)
\* the draws the logged calls took themselves, call after call (pre-order)
OwnDraws(ns) ==
    IF ns = <<>> THEN <<>> ELSE Head(ns).draws \o OwnDraws(Tail(ns))

\* ds are consecutive values of the generator started in state s0
IsStreamFrom(s0, ds) ==
    \A k \in 1..Len(ds) : ds[k] = next(IF k = 1 THEN s0 ELSE ds[k - 1])

ForcedTerminal(n) == n.depth >= part.maxDepth \/ TooSmall(n.block)

\* C26: a call at the maximum depth or on a rectangle with both sides below
\* the minimum takes no draw; every other call takes exactly one draw for
\* the stop check (at depth 0 too, where its result is not used) and, when it
\* splits, exactly one more for the split point; a call's draws come before
\* the draws of its children, stop check first.
C26_DrawsPerNode ==
    PartDone =>
        /\ \A i \in 1..Len(part.nodes) :
              LET n == part.nodes[i] IN
              /\ ForcedTerminal(n) => n.draws = <<>>
              /\ (~ForcedTerminal(n) /\ ~IsSplit(n)) => Len(n.draws) = 1
              /\ IsSplit(n) =>
                    /\ ~ForcedTerminal(n)
                    /\ Len(n.draws) = 2
                    /\ (n.depth = 0 \/ ~StopDraw(n.draws[1]))
                    /\ n.sp = IF n.kind = "splitH"
                              THEN SplitPoint(n.block.y, n.block.height, n.draws[2])
                              ELSE SplitPoint(n.block.x, n.block.width, n.draws[2])
              /\ n.kind = "randomStop" => (n.depth > 0 /\ StopDraw(n.draws[1]))
        /\ OwnDraws(part.nodes) = part.draws
        /\ IsStreamFrom(SeededRandom(part.seed), part.draws)
        /\ part.rng = IF part.draws = <<>> THEN SeededRandom(part.seed)
                      ELSE part.draws[Len(part.draws)]

C26_Witness ==
    /\ PartDone
    /\ part.maxDepth >= 3
    /\ IsSplit(part.nodes[1])
    /\ StopDraw(part.nodes[1].draws[1])
    /\ \E i \in 1..Len(part.nodes) : part.nodes[i].kind = "randomStop"
    /\ \E i \in 1..Len(part.nodes) : part.nodes[i].kind = "tooSmall"
    /\ \E i \in 1..Len(part.nodes) : part.nodes[i].kind = "maxDepth"

\* origin and extent of a split call along its split axis
AxisOrigin(n) == IF n.kind = "splitH" THEN n.block.y ELSE n.block.x
AxisExtent(n) == IF n.kind = "splitH" THEN n.block.height ELSE n.block.width

\* C27: every split point is an integer equal to floor(origin + extent * f)
\* for some f in [0.3, 0.7), that is, 3/10 of the extent is below sp + 1 -
\* origin and sp - origin is below 7/10 of the extent; both children have a
\* positive extent along the split axis, and every returned block has
\* positive width and height.
C27_SplitPointInRange ==
    PartDone =>
        /\ \A i \in 1..Len(part.nodes) :
              LET n == part.nodes[i]
                  o == AxisOrigin(n)
                  e == AxisExtent(n)
              IN  IsSplit(n) =>
                    /\ n.sp \in Int
                    /\ 10 * (n.sp - o + 1) > 3 * e
                    /\ 10 * (n.sp - o) < 7 * e
                    /\ n.sp - o > 0
                    /\ o + e - n.sp > 0
        /\ \A k \in 1..Len(part.blocks) :
              part.blocks[k].width > 0 /\ part.blocks[k].height > 0

C27_Witness ==
    /\ PartDone
    /\ part.rect = Block(10, 20, 300, 500)
    /\ part.maxDepth >= 3
    /\ \E i \in 1..Len(part.nodes) : part.nodes[i].kind = "splitH"
    /\ \E i \in 1..Len(part.nodes) : part.nodes[i].kind = "splitV"
    /\ Len(part.blocks) >= 4

\* the child of a split call with the lower coordinate, and the other one
EarlierChild(n) ==
    IF n.kind = "splitH"
    THEN Block(n.block.x, n.block.y, n.block.width, n.sp - n.block.y)
    ELSE Block(n.block.x, n.block.y, n.sp - n.block.x, n.block.height)

LaterChild(n) ==
    IF n.kind = "splitH"
    THEN Block(n.block.x, n.sp, n.block.width,
               n.block.y + n.block.height - n.sp)
    ELSE Block(n.sp, n.block.y, n.block.x + n.block.width - n.sp,
               n.block.height)

\* C28: at every split the child with the lower y (horizontal split) or
\* lower x (vertical split) is processed first and completely: the next call
\* is the call on that child, every call inside it comes before every call
\* inside the other child, the draws in call order are the consecutive
\* values of the stream, and in the returned list every block inside the
\* earlier child comes before every block inside the later child.
C28_EarlierChildFirst ==
    PartDone =>
        /\ \A i \in 1..Len(part.nodes) :
              LET n == part.nodes[i] IN
              IsSplit(n) =>
                /\ i + 1 <= Len(part.nodes)
                /\ part.nodes[i + 1].block = EarlierChild(n)
                /\ part.nodes[i + 1].depth = n.depth + 1
                /\ \A j, k \in 1..Len(part.nodes) :
                      ( /\ Inside(part.nodes[j].block, EarlierChild(n))
                        /\ Inside(part.nodes[k].block, LaterChild(n)) )
                      => j < k
                /\ \A p, q \in 1..Len(part.blocks) :
                      ( /\ Inside(part.blocks[p], EarlierChild(n))
                        /\ Inside(part.blocks[q], LaterChild(n)) )
                      => p < q
        /\ OwnDraws(part.nodes) = part.draws
        /\ IsStreamFrom(SeededRandom(part.seed), part.draws)

C28_Witness ==
    /\ PartDone
    /\ part.rect = Block(0, 0, 800, 600)
    /\ part.nodes[1].kind = "splitV"
    /\ IsSplit(part.nodes[2])
    /\ Len(part.blocks) >= 4
    /\ Inside(part.blocks[2], EarlierChild(part.nodes[1]))
    /\ Inside(part.blocks[Len(part.blocks) - 1], LaterChild(part.nodes[1]))

----------------------------------------------------------------------------
(* Claims about drawComposition *)

\* the draws of a composition taken after generateBlocks returned
FillDraws(S) == SubSeq(S.draws, Len(OwnDraws(S.nodes)) + 1, Len(S.draws))

\* the calls issued after the clearing fill: first one per block, then the rest
Fills(S) == SubSeq(S.ops, 2, Len(S.blocks) + 1)
Strokes(S) == SubSeq(S.ops, Len(S.blocks) + 2, Len(S.ops))

Coloured(S) == {i \in 1..Len(S.blocks) : Fills(S)[i].style # BACKGROUND_COLOR}

RECURSIVE FillsFollowDraws(_, _, _, _, _)
\* From block i and draw k on: block i is filled on one draw, white when the
\* draw is not below colorChance, otherwise with the palette entry chosen by
\* exactly one further draw; the last block uses up the last draw.
FillsFollowDraws(S, fills, ds, i, k) ==
    IF i > Len(S.blocks) THEN k = Len(ds) + 1
    ELSE
      /\ k <= Len(ds)
      /\ fills[i].op = "fillRect"
      /\ fills[i].block = S.blocks[i]
      /\ IF ds[k] * 1000 < S.params.colorChance * Modulus
         THEN /\ k + 1 <= Len(ds)
              /\ LET colorIndex == (ds[k + 1] * 3) \div Modulus IN
                 /\ colorIndex \in 0..2
                 /\ fills[i].style = PRIMARY_COLORS[colorIndex + 1]
              /\ FillsFollowDraws(S, fills, ds, i + 1, k + 2)
         ELSE /\ fills[i].style = BACKGROUND_COLOR
              /\ FillsFollowDraws(S, fills, ds, i + 1, k + 1)

\* C29: drawComposition takes the blocks in list order; a block costs one
\* draw, and one more exactly when the first is below colorChance; the
\* second draw picks index 0..2 of the palette red, blue, yellow, and a block
\* whose first draw is not below colorChance is filled white.  The draws of
\* the fill loop number the blocks plus the coloured blocks and continue the
\* stream where generateBlocks left it.
C29_FillDraws ==
    /\ PRIMARY_COLORS = <<"#FF0000", "#0000FF", "#FFFF00">>
    /\ \A c \in Clients :
          Drawn(c) =>
            LET S == surface[c] IN
            /\ FillsFollowDraws(S, Fills(S), FillDraws(S), 1, 1)
            /\ Len(FillDraws(S)) = Len(S.blocks) + Cardinality(Coloured(S))
            /\ IsStreamFrom(SeededRandom(S.params.seed), S.draws)

C29_Witness ==
    /\ Drawn(1)
    /\ surface[1].params.colorChance = 350
    /\ \E i \in 1..Len(surface[1].blocks) : Fills(surface[1])[i].style = "#FF0000"
    /\ \E i \in 1..Len(surface[1].blocks) : Fills(surface[1])[i].style = "#0000FF"
    /\ \E i \in 1..Len(surface[1].blocks) : Fills(surface[1])[i].style = "#FFFF00"
    /\ \E i \in 1..Len(surface[1].blocks) : Fills(surface[1])[i].style = "#FFFFFF"

\* C30: after the clearing fill drawComposition issues one fill per block
\* in list order and only then one stroke per block in list order, black and
\* lineWeight wide; the strokes take no draw: the generator is left at the
\* last draw of the fill loop.
C30_FillsBeforeStrokes ==
    \A c \in Clients :
        Drawn(c) =>
          LET S == surface[c]
              n == Len(S.blocks)
          IN  /\ Len(S.ops) = 2 * n + 1
              /\ \A i \in 1..n :
                    /\ Fills(S)[i].op = "fillRect"
                    /\ Fills(S)[i].block = S.blocks[i]
                    /\ Strokes(S)[i].op = "strokeRect"
                    /\ Strokes(S)[i].block = S.blocks[i]
                    /\ Strokes(S)[i].style = "#000000"
                    /\ Strokes(S)[i].lineWidth = S.params.lineWeight
              /\ Len(S.draws) =
                    Len(OwnDraws(S.nodes)) + n + Cardinality(Coloured(S))
              /\ S.rng = S.draws[Len(S.draws)]

C30_Witness ==
    /\ Drawn(2)
    /\ Len(surface[2].blocks) >= 5
    /\ surface[2].params.lineWeight = 30
    /\ surface[2].ops[Len(surface[2].blocks) + 1].op = "fillRect"
    /\ surface[2].ops[Len(surface[2].blocks) + 2].op = "strokeRect"
    /\ surface[2].ops[Len(surface[2].blocks) + 2].block = surface[2].blocks[1]

----------------------------------------------------------------------------
(* Claims about cadence, delivery and serialisation on the server *)

\* C31: the first scheduler tick comes no earlier than the startup delay
\* after the scheduler started, and any later tick comes no earlier than one
\* generation interval after the tick before it.
C31_FixedCadence ==
    [][IsTick =>
          /\ lastTick = -1 => clock >= StartupDelay
          /\ lastTick # -1 => clock - lastTick >= GENERATION_INTERVAL]_vars

----------------------------------------------------------------------------
(* Claims about the client's timers and clock offset *)

\* The server with its timers running when they are due and time passing.
SpecServerLive ==
    /\ SpecServer
    /\ WF_clock(Advance)
    /\ WF_startup(StartupTimeout)
    /\ WF_interval(IntervalTick)

\* the interval timer is armed for a time the clock reaches
TickAhead ==
    /\ phase = "listening"
    /\ interval.active
    /\ interval.due <= MaxClock

\* the last step was a tick that sent session id a generate event
SentGenerate(id) ==
    /\ lastOp.op = "tick"
    /\ \E i \in 1..Len(sent) : sent[i].type = "generate" /\ id \in sent[i].to

\* C35: a generate event is sent only by a scheduler tick and carries the
\* time of that tick; the connection handler sends welcome and users and
\* nothing else; the next interval tick is never due later than one
\* generation interval from now; every tick sends a generate event to every
\* session connected at that moment; and while the server is listening
\* with its timer armed, a tick follows.
C35_NextTickServesNewSession ==
    /\ [](\A i \in 1..Len(sent) :
             sent[i].type = "generate" =>
                 lastOp.op = "tick" /\ sent[i].timestamp = clock)
    /\ [](lastOp.op = "connection" =>
             \A i \in 1..Len(sent) : sent[i].type \in {"welcome", "users"})
    /\ []((phase = "listening" /\ interval.active) =>
             interval.due <= clock + GENERATION_INTERVAL)
    /\ [][IsTick =>
             \A id \in conns :
                \E i \in 1..Len(sent') :
                   sent'[i].type = "generate" /\ id \in sent'[i].to]_vars
    /\ TickAhead ~> (phase # "listening" \/ lastOp.op = "tick")

\* session 2 connected after a broadcast that went to session 1 alone, and
\* the next tick sent it a generate event
C35_Witness ==
    /\ SentGenerate(2)
    /\ Len(seeds) = 2
    /\ registry[2].connectedAt > seeds[1]

\* C36: a scheduler tick changes neither the registry nor the set of
\* connected sockets; it broadcasts exactly when the registry is not empty,
\* and then its generate and its audio event are addressed to one and the
\* same non-empty set, the sockets connected at the tick.
C36_TickIsAtomic ==
    [][IsTick =>
          /\ registry' = registry
          /\ conns' = conns
          /\ (sent' # <<>>) <=> (Size(registry) > 0)
          /\ sent' # <<>> =>
                /\ sent'[1].to = sent'[Len(sent')].to
                /\ sent'[1].to # {}
                /\ sent'[1].to = conns
                /\ sent'[1].type = "generate"
                /\ sent'[Len(sent')].type = "audio"]_vars

\* a tick broadcast to session 2 alone, after session 1 had connected and
\* disconnected
C36_Witness ==
    /\ lastOp.op = "tick"
    /\ conns = {2}
    /\ Len(sent) = 2
    /\ sent[1].to = {2} /\ sent[2].to = {2}

\* C32: at any time at most one periodic resynchronisation timer is active
\* on a client, also after disconnect/reconnect cycles.
C32_OneResyncTimer == Len(link.timers) <= 1

\* C34: the clock offset changes only in a step that handles a welcome or a
\* sync event; handling generate, audio, users or the connect notification,
\* losing the connection, disconnecting, a timer firing and the passing of
\* time leave it as it was; getServerTime() is the local time plus the
\* offset.
C34_OffsetOnlyBySync ==
    /\ [][clockOffset' # clockOffset =>
             /\ downq # <<>>
             /\ Head(downq).type \in {"welcome", "sync"}
             /\ downq' = Tail(downq)]_vars
    /\ [][(downq # <<>> /\ downq' = Tail(downq)
             /\ Head(downq).type \in {"generate", "audio", "users", "connect"})
          => clockOffset' = clockOffset]_vars
    /\ [](getServerTime - clockOffset = 2 * (clock - skew))

\* an audio event is at the head of the connection, so the generate event of
\* its tick has been handled, and the offset set by a sync is still there
C34_Witness ==
    /\ downq # <<>>
    /\ Head(downq).type = "audio"
    /\ link.synced
    /\ lastSync.kind = "sync"
    /\ clockOffset # 0

----------------------------------------------------------------------------
(* The standalone tone generators: the page's ToneGenerator with start(),  *)
(* stop() and setInterval(), and the Node ToneGenerator that plays each    *)
(* tone from temp_tone.wav                                                 *)

DefaultInterval == 1000     \* ToneGenerator.interval as constructed, in ms
NodeToneInterval == 5000    \* the period of the Node generator's timer, in ms
ToneDuration == 5           \* seconds of sound per tone

MaxToneClock == 6000   \* the tone clock stops advancing here
ToneStep == 1000       \* granularity of the tone clock
MaxTimers == 3         \* timer ids handed out in one run
MaxStarts == 2         \* start() calls waiting for resume() at once
MaxTones == 3          \* playTone() calls in one run

\* the arguments of setInterval(seconds)
Seconds == {1, 2}

\* window.setInterval(callback, period) / setInterval(callback, period)
NewTimer(period) ==
    [id |-> timerIds + 1, period |-> period, due |-> toneClock + period]

\* clearInterval(id)
clearInterval(ts, id) == {x \in ts : x.id # id}

\* a timer that has fired is due again one period later
Rearm(ts, x) ==
    (ts \ {x}) \cup {[x EXCEPT !.due = toneClock + x.period]}

\* After new ToneGenerator(canvas) on the page: the AudioContext of a page
\* that has had no user gesture yet is suspended.
InitTone ==
    /\ toneGen = [isRunning |-> FALSE, intervalId |-> 0,
                  interval |-> DefaultInterval]
    /\ audioContext = [state |-> "suspended", awaiting |-> 0]
    /\ timers = {} /\ timerIds = 0 /\ toneClock = 0
    /\ tempFile = 0 /\ tones = <<>>
    /\ toneOp = [op |-> "none"]
    /\ orbit = <<>>
    /\ gen = <<>> /\ part = NoPart
    /\ canvas = NoCanvas /\ started = NoCanvas /\ surface = NoCanvas
    /\ ServerIdle
    /\ SyncIdle

ToneFrame ==
    UNCHANGED <<gen, part, canvas, started, surface, serverVars, syncVars,
                orbit>>

\* start() from `if (this.isRunning) return;` on: synchronous
StartBody ==
    IF toneGen.isRunning
    THEN UNCHANGED <<toneGen, timers, timerIds>>
    ELSE /\ toneGen' = [toneGen EXCEPT !.isRunning = TRUE,
                                       !.intervalId = timerIds + 1]
         /\ timers' = timers \cup {NewTimer(toneGen.interval)}
         /\ timerIds' = timerIds + 1

\* start() is called: it waits for resume() when the context is suspended,
\* and runs to its end otherwise.
ToneStart ==
    /\ timerIds < MaxTimers
    /\ IF audioContext.state = "suspended"
       THEN /\ audioContext.awaiting < MaxStarts
            /\ audioContext' = [audioContext EXCEPT !.awaiting = @ + 1]
            /\ UNCHANGED <<toneGen, timers, timerIds>>
       ELSE /\ StartBody
            /\ UNCHANGED audioContext
    /\ toneOp' = [op |-> "start"]
    /\ UNCHANGED <<toneClock, tempFile, tones>>
    /\ ToneFrame

\* The context a start() call asked to resume is running.
Resumed ==
    /\ audioContext.state = "suspended"
    /\ audioContext.awaiting > 0
    /\ audioContext' = [audioContext EXCEPT !.state = "running"]
    /\ toneOp' = [op |-> "resumed"]
    /\ UNCHANGED <<toneGen, timers, timerIds, toneClock, tempFile, tones>>
    /\ ToneFrame

\* A start() call that waited for resume() continues.
StartContinues ==
    /\ audioContext.state = "running"
    /\ audioContext.awaiting > 0
    /\ audioContext' = [audioContext EXCEPT !.awaiting = @ - 1]
    /\ StartBody
    /\ toneOp' = [op |-> "start"]
    /\ UNCHANGED <<toneClock, tempFile, tones>>
    /\ ToneFrame

\* stop()
ToneStop ==
    /\ IF ~toneGen.isRunning \/ toneGen.intervalId = 0
       THEN UNCHANGED <<toneGen, timers>>
       ELSE /\ toneGen' = [toneGen EXCEPT !.isRunning = FALSE,
                                          !.intervalId = 0]
            /\ timers' = clearInterval(timers, toneGen.intervalId)
    /\ toneOp' = [op |-> "stop"]
    /\ UNCHANGED <<audioContext, timerIds, toneClock, tempFile, tones>>
    /\ ToneFrame

\* a setInterval(seconds) that starts the new timer and leaves the old one
ToneSetIntervalKeepsOld(seconds) ==
    /\ timerIds < MaxTimers
    /\ IF toneGen.isRunning /\ toneGen.intervalId # 0
       THEN /\ toneGen' = [toneGen EXCEPT !.interval = seconds * 1000,
                                          !.intervalId = timerIds + 1]
            /\ timers' = timers \cup {NewTimer(seconds * 1000)}
            /\ timerIds' = timerIds + 1
       ELSE /\ toneGen' = [toneGen EXCEPT !.interval = seconds * 1000]
            /\ UNCHANGED <<timers, timerIds>>
    /\ toneOp' = [op |-> "setInterval"]
    /\ UNCHANGED <<audioContext, toneClock, tempFile, tones>>
    /\ ToneFrame

\* setInterval(seconds)
ToneSetInterval(seconds) ==
    /\ timerIds < MaxTimers
    /\ IF toneGen.isRunning /\ toneGen.intervalId # 0
       THEN /\ toneGen' = [toneGen EXCEPT !.interval = seconds * 1000,
                                          !.intervalId = timerIds + 1]
            /\ timers' = clearInterval(timers, toneGen.intervalId)
                           \cup {NewTimer(seconds * 1000)}
            /\ timerIds' = timerIds + 1
       ELSE /\ toneGen' = [toneGen EXCEPT !.interval = seconds * 1000]
            /\ UNCHANGED <<timers, timerIds>>
    /\ toneOp' = [op |-> "setInterval"]
    /\ UNCHANGED <<audioContext, toneClock, tempFile, tones>>
    /\ ToneFrame

\* A live timer fires: generateSoundAndImage().
ToneTimerFire ==
    /\ \E x \in timers :
          /\ toneClock >= x.due
          /\ timers' = Rearm(timers, x)
          /\ toneOp' = [op |-> "fire", id |-> x.id, period |-> x.period]
    /\ UNCHANGED <<toneGen, audioContext, timerIds, toneClock, tempFile, tones>>
    /\ ToneFrame

\* Time passes.
ToneElapse ==
    /\ toneClock < MaxToneClock
    /\ toneClock' = toneClock + ToneStep
    /\ toneOp' = [op |-> "none"]
    /\ UNCHANGED <<toneGen, audioContext, timers, timerIds, tempFile, tones>>
    /\ ToneFrame

NextTone ==
    \/ ToneStart
    \/ Resumed
    \/ StartContinues
    \/ ToneStop
    \/ \E seconds \in Seconds : ToneSetInterval(seconds)
    \/ ToneTimerFire
    \/ ToneElapse

SpecTone == InitTone /\ [][NextTone]_vars

\* C33: at most one interval timer is live, one is live exactly when
\* isRunning is true, the live timer is the one in intervalId and has the
\* current period, and a timer that fires is that timer: a timer replaced by
\* setInterval() or cleared by stop() does not fire again.
C33_OneLiveTimer ==
    /\ [](Cardinality(timers) <= 1)
    /\ [](toneGen.isRunning <=> timers # {})
    /\ [](\A x \in timers :
             x.id = toneGen.intervalId /\ x.period = toneGen.interval)
    /\ [][toneOp'.op = "fire" =>
             /\ toneOp'.id = toneGen.intervalId
             /\ toneOp'.period = toneGen.interval]_vars

\* the timer of a generator whose period was changed while it was running,
\* after a start() that waited for resume(), has fired
C33_Witness ==
    /\ toneOp.op = "fire"
    /\ toneOp.id >= 2
    /\ toneOp.period # DefaultInterval
    /\ toneGen.isRunning
    /\ audioContext.state = "running"

----------------------------------------------------------------------------
(* The Node tone generator *)

\* After new ToneGenerator() in the Node program.
InitNodeTone ==
    /\ toneGen = [isRunning |-> FALSE, intervalId |-> 0, exited |-> FALSE]
    /\ audioContext = <<>>
    /\ timers = {} /\ timerIds = 0 /\ toneClock = 0
    /\ tempFile = 0 /\ tones = <<>>
    /\ toneOp = [op |-> "none"]
    /\ orbit = <<>>
    /\ gen = <<>> /\ part = NoPart
    /\ canvas = NoCanvas /\ started = NoCanvas /\ surface = NoCanvas
    /\ ServerIdle
    /\ SyncIdle

\* generateSound(): playTone() has generated the samples and is waiting for
\* createWavFile()
generateSound(ts) == Append(ts, [stage |-> "writing", playedAt |-> -1])

\* fs.unlinkSync(tempFilePath): removes the file whatever it holds, and
\* throws when there is none
unlinkSync(file) == [file |-> 0, threw |-> file = 0]

\* start(): the first tone at once, then one every NodeToneInterval
NodeStart ==
    /\ ~toneGen.exited
    /\ Len(tones) < MaxTones
    /\ timerIds < MaxTimers
    /\ IF toneGen.isRunning
       THEN UNCHANGED <<toneGen, timers, timerIds, tones>>
       ELSE /\ toneGen' = [toneGen EXCEPT !.isRunning = TRUE,
                                          !.intervalId = timerIds + 1]
            /\ tones' = generateSound(tones)
            /\ timers' = timers \cup {NewTimer(NodeToneInterval)}
            /\ timerIds' = timerIds + 1
    /\ toneOp' = [op |-> "start"]
    /\ UNCHANGED <<audioContext, toneClock, tempFile>>
    /\ ToneFrame

\* The timer fires: generateSound().
NodeTimerFire ==
    /\ ~toneGen.exited
    /\ Len(tones) < MaxTones
    /\ \E x \in timers :
          /\ toneClock >= x.due
          /\ timers' = Rearm(timers, x)
    /\ tones' = generateSound(tones)
    /\ toneOp' = [op |-> "fire"]
    /\ UNCHANGED <<toneGen, audioContext, timerIds, toneClock, tempFile>>
    /\ ToneFrame

\* createWavFile() of tone n is done: temp_tone.wav holds its samples, and
\* playTone() goes on to audioPlayer.play().
WavWritten(n) ==
    /\ ~toneGen.exited
    /\ tones[n].stage = "writing"
    /\ tempFile' = n
    /\ tones' = [tones EXCEPT ![n] = [stage |-> "playing",
                                      playedAt |-> toneClock]]
    /\ toneOp' = [op |-> "play", tone |-> n]
    /\ UNCHANGED <<toneGen, audioContext, timers, timerIds, toneClock>>
    /\ ToneFrame

\* The player of tone n has ended, after the tone or earlier with an error:
\* the callback of play() removes the file.  The exception of unlinkSync is
\* not caught and ends the process.
PlaybackEnds(n) ==
    /\ ~toneGen.exited
    /\ tones[n].stage = "playing"
    /\ \E err \in BOOLEAN :
          ~err => toneClock >= tones[n].playedAt + ToneDuration * 1000
    /\ LET r == unlinkSync(tempFile) IN
          /\ tempFile' = r.file
          /\ toneGen' = [toneGen EXCEPT !.exited = r.threw]
          /\ timers' = IF r.threw THEN {} ELSE timers
    /\ tones' = [tones EXCEPT ![n].stage = "done"]
    /\ toneOp' = [op |-> "cleanup", tone |-> n, found |-> tempFile]
    /\ UNCHANGED <<audioContext, timerIds, toneClock>>
    /\ ToneFrame

\* process.on("SIGINT"): stop(), then process.exit().
NodeSigint ==
    /\ ~toneGen.exited
    /\ toneGen' = [isRunning |-> FALSE, intervalId |-> 0, exited |-> TRUE]
    /\ timers' = {}
    /\ toneOp' = [op |-> "SIGINT"]
    /\ UNCHANGED <<audioContext, timerIds, toneClock, tempFile, tones>>
    /\ ToneFrame

\* Time passes.
NodeElapse ==
    /\ ~toneGen.exited
    /\ toneClock < MaxToneClock
    /\ toneClock' = toneClock + ToneStep
    /\ toneOp' = [op |-> "none"]
    /\ UNCHANGED <<toneGen, audioContext, timers, timerIds, tempFile, tones>>
    /\ ToneFrame

NextNodeTone ==
    \/ NodeStart
    \/ NodeTimerFire
    \/ \E n \in 1..Len(tones) : WavWritten(n)
    \/ \E n \in 1..Len(tones) : PlaybackEnds(n)
    \/ NodeSigint
    \/ NodeElapse

SpecNodeTone == InitNodeTone /\ [][NextNodeTone]_vars

\* C40: while a tone is playing temp_tone.wav holds that tone, and the
\* cleanup of a tone finds the file of that tone.
C40_CleanupFindsOwnFile ==
    /\ \A n \in 1..Len(tones) : tones[n].stage = "playing" => tempFile = n
    /\ toneOp.op = "cleanup" => toneOp.found = toneOp.tone

----------------------------------------------------------------------------
(* One generator followed through a whole period *)

\* seeds of the generators followed: zero, a negative one, a small one
OrbitSeeds == {0, -1, 42}

\* After new SeededRandom(seed).
InitPeriod ==
    /\ \E s \in OrbitSeeds :
          orbit = [seed |-> s, state |-> SeededRandom(s), calls |-> 0,
                   first |-> -1]
    /\ gen = <<>> /\ part = NoPart
    /\ canvas = NoCanvas /\ started = NoCanvas /\ surface = NoCanvas
    /\ ServerIdle
    /\ SyncIdle
    /\ toneGen = <<>> /\ audioContext = <<>> /\ timers = {} /\ timerIds = 0
    /\ toneClock = 0 /\ tempFile = 0 /\ tones = <<>> /\ toneOp = <<>>

\* next() on the generator; `first` keeps what the first call left in the
\* field.  The run ends one call after a whole period.
OrbitNext ==
    /\ orbit.calls <= Modulus
    /\ orbit' = [orbit EXCEPT !.state = next(orbit.state),
                              !.calls = @ + 1,
                              !.first = IF orbit.calls = 0
                                        THEN next(orbit.state) ELSE @]
    /\ UNCHANGED <<gen, part, canvas, started, surface, serverVars, syncVars,
                   toneVars>>

NextPeriod == OrbitNext

SpecPeriod == InitPeriod /\ [][NextPeriod]_vars

\* C37: from any seed, the field is in 0..233279 after every call, it does
\* not come back to its value after the first call during the next 233279
\* calls, and it is back there after exactly 233280 more calls: the 233280
\* calls visit 233280 different states, that is every state of 0..233279
\* once, and the stream repeats with period exactly 233280.
C37_FullPeriod ==
    /\ orbit.calls >= 1 => orbit.state \in 0..(Modulus - 1)
    /\ orbit.calls \in 2..Modulus => orbit.state # orbit.first
    /\ orbit.calls = Modulus + 1 => orbit.state = orbit.first

\* the generator seeded with zero has made one call more than the period
C37_Witness ==
    /\ orbit.seed = 0
    /\ orbit.calls = Modulus + 1
    /\ orbit.state = orbit.first

----------------------------------------------------------------------------
(* Claims about congruent seeds and about termination *)

\* the stream of a generator started at s: the values of its next n calls
RECURSIVE StreamFrom(_, _)
StreamFrom(s, n) ==
    IF n = 0 THEN <<>> ELSE <<next(s)>> \o StreamFrom(next(s), n - 1)

\* the composition drawn for a seed on a canvas of the size of the
\* partitioned rectangle, with the depth of the run
ComposedFor(seed) ==
    LET c == Composition([width |-> part.rect.width,
                          height |-> part.rect.height,
                          depth |-> part.maxDepth,
                          colorChance |-> 300, lineWeight |-> 12],
                         SeededRandom(seed))
    IN  [blocks |-> c.blocks, ops |-> c.ops, draws |-> c.draws]

\* C38: a seed and the seeds one modulus below and above it (a negative
\* seed and its positive residue, 0 and 233280 among them) start the
\* generator in the same state, so they give the same stream, the same
\* partition and the same composition.
C38_CongruentSeedsAgree ==
    PartDone =>
        \A k \in {-1, 1} :
            LET other == part.seed + k * Modulus IN
            /\ SeededRandom(other) = SeededRandom(part.seed)
            /\ StreamFrom(SeededRandom(other), MaxCalls)
                  = StreamFrom(SeededRandom(part.seed), MaxCalls)
            /\ generateBlocks(part.rect, 0, part.maxDepth,
                              SeededRandom(other)).blocks = part.blocks
            /\ ComposedFor(other) = ComposedFor(part.seed)

\* a run seeded with -1 or 0 that split the rectangle
C38_Witness ==
    /\ PartDone
    /\ part.seed \in {-1, 0}
    /\ Len(part.blocks) >= 3

NoDepthBound == 1000   \* a maxDepth that no call of a run reaches

\* the run of the partitioned rectangle and seed with no effective depth
\* bound
Unbounded ==
    generateBlocks(part.rect, 0, NoDepthBound, SeededRandom(part.seed))

\* C39: with a maxDepth no call reaches, generateBlocks still returns: no
\* call ends at the depth bound; every split is of an extent above
\* MIN_BLOCK_SIZE and gives both children a positive extent strictly below
\* it, the other extent unchanged; so no call is deeper than the sum of the
\* rectangle's sides.
C39_TerminatesWithoutDepthBound ==
    PartDone =>
        \A i \in 1..Len(Unbounded.nodes) :
            LET n == Unbounded.nodes[i]
                o == AxisOrigin(n)
                e == AxisExtent(n)
            IN  /\ n.kind # "maxDepth"
                /\ n.depth <= part.rect.width + part.rect.height
                /\ IsSplit(n) =>
                      /\ e > MIN_BLOCK_SIZE
                      /\ n.sp - o \in 1..(e - 1)
                      /\ o + e - n.sp \in 1..(e - 1)

\* a run cut at its depth bound whose unbounded run goes deeper and ends
C39_Witness ==
    /\ PartDone
    /\ part.maxDepth = MaxMaxDepth
    /\ \E i \in 1..Len(part.nodes) : part.nodes[i].kind = "maxDepth"
    /\ \E i \in 1..Len(Unbounded.nodes) :
          Unbounded.nodes[i].depth > MaxMaxDepth
    /\ Len(Unbounded.blocks) > Len(part.blocks)

====
